---- MODULE Spec2Model ----
(***************************************************************************)
(* Verification model of the dumper backend core: the vault Manager        *)
(* (internal/store/store.go), the vault store (items.go, relationships.go, *)
(* migrations), and the ingestion pipeline (internal/ingest).              *)
(*                                                                         *)
(* Strings are sequences of one-character strings so that lowercasing,     *)
(* trimming and wiki-link parsing are computed, not assumed.  Item ids     *)
(* are small integers standing for UUID strings; their numeric order is    *)
(* the lexicographic order of the strings.  Strengths are hundredths.      *)
(***************************************************************************)
EXTENDS Integers, Sequences, FiniteSets, TLC

\* ------------------------------------------------------------------------
\* Bounds
\* ------------------------------------------------------------------------
\* goroutines calling Manager.GetVault concurrently
NumGoroutines == 2
\* tenants
NumOwners == 2
\* cap on successful openVault runs per owner (only a faulty GetVault reaches it)
MaxOpens == 2

\* item ids available to uuid.NewString() and to callers
NumItemIDs == 2
\* cap on the logical clock: the number of CreateItem and Process calls in one
\* behaviour
MaxClock == 2

\* Process calls that can be in progress at a time
NumCalls == 1

\* GetItem calls that can run beside the writers of a vault
NumReaders == 1
\* Process calls of one owner racing each other
NumRacers == 2
\* goroutines of Bot.Run handling updates at a time
NumHandlers == 2

Goroutines == 1..NumGoroutines
Owners == 1..NumOwners

VARIABLES
    \* ---- Manager (store.go) ----
    vaults,     \* Manager.vaults: owner -> handle, partial map
    mu,         \* Manager.mu: [readers: set of goroutines, writer: goroutine or 0]
    pc,         \* position of each goroutine inside GetVault
    req,        \* userID argument of each goroutine's current GetVault call
    opening,    \* result of the goroutine's openVault: "none" | "ok" | "err" while
                \* it is in progress, "failed" once GetVault has returned its error
    opened,     \* owner -> number of VaultStore instances openVault has created
    returned,   \* owner -> set of handles GetVault has returned to callers
    \* ---- one vault (items.go, relationships.go, migrations) ----
    db,         \* the vault database: schema state and table contents
    open,       \* the running program has opened the vault (RunMigrations ran)
    now,        \* logical time.Now(), advanced by every CreateItem call
    ret,        \* the last call on the vault and its result
    \* ---- Pipeline.Process calls in progress (ingest) ----
    calls,      \* call -> its stage, the item it built, its context's state
    \* ---- callers of the store running beside its writers ----
    rd,         \* reader -> the GetItem call it is in: position, row, result
    \* ---- Manager.Close (store.go) ----
    closed,     \* handles whose database Close has closed
    \* ---- the vault files of all owners (store.go) ----
    files,      \* path of a vault.db -> its database and settings table
    tn,         \* the owners' store calls: the database file each owner's
                \* handle is open on, the owner of the last call
    \* ---- the bot's update handlers (bot.go, i18n) ----
    langCache,  \* i18n.langCache: owner -> Lang, partial map
    hs          \* handler goroutine -> the update it handles and its position

mgrVars == <<vaults, mu, pc, req, opening, opened, returned>>

vaultVars == <<db, open, now, ret, calls>>

\* what no store writer touches
restVars == <<closed, files, tn, langCache, hs>>

auxVars == <<rd, restVars>>

vars == <<mgrVars, vaultVars, auxVars>>

\* ------------------------------------------------------------------------
\* Strings (Go strings package), over the characters the inputs use
\* ------------------------------------------------------------------------
\* unicode.ToLower on one character
Lower(c) ==
    CASE c = "A" -> "a"
      [] c = "B" -> "b"
      [] c = "G" -> "g"
      [] OTHER -> c

\* strings.ToLower
RECURSIVE ToLower(_)
ToLower(s) == IF s = <<>> THEN <<>> ELSE <<Lower(Head(s))>> \o ToLower(Tail(s))

\* unicode.IsSpace
IsSpace(c) == c \in {" ", "\n", "\t"}

RECURSIVE TrimLeft(_)
TrimLeft(s) == IF s # <<>> /\ IsSpace(Head(s)) THEN TrimLeft(Tail(s)) ELSE s

RECURSIVE TrimRight(_)
TrimRight(s) ==
    IF s # <<>> /\ IsSpace(s[Len(s)]) THEN TrimRight(SubSeq(s, 1, Len(s) - 1)) ELSE s

\* strings.TrimSpace
TrimSpace(s) == TrimRight(TrimLeft(s))

\* the elements of a list
Range(s) == {s[i] : i \in 1..Len(s)}

\* ------------------------------------------------------------------------
\* Vault database (migrations: schema, triggers; items.go; relationships.go)
\* ------------------------------------------------------------------------
ItemIDs == 1..NumItemIDs
\* Item.ID == "": CreateItem assigns a UUID
NoID == 0

\* CHECK(type IN (...)) of the items table, by schema generation
AllowedTypes(schema) ==
    CASE schema = "current" -> {"link", "note", "image", "search"}
      [] schema = "legacy" -> {"link", "note"}
      [] OTHER -> {}

\* a vault file before any schema was applied to it
FreshDB ==
    [schema |-> "none", image_path_col |-> FALSE, triggers |-> FALSE,
     items |-> {}, tags |-> {}, item_tags |-> {}, relationships |-> {}, fts |-> {}]

\* a vault file created by the first release (migrations/001_init.sql)
LegacyDB == [FreshDB EXCEPT !.schema = "legacy", !.triggers = TRUE]

ItemIdsOf(d) == {r.id : r \in d.items}

RowOf(d, id) == CHOOSE r \in d.items : r.id = id

\* SQLite rowid of a new row in a rowid table: max(rowid) + 1
NextRowid(rows) ==
    IF rows = {} THEN 1
    ELSE (CHOOSE m \in {r.rowid : r \in rows} : \A r \in rows : r.rowid <= m) + 1

\* what the items_ai / items_ad triggers hand to items_fts for a row
FtsEntry(r) == [rowid |-> r.rowid, title |-> r.title, content |-> r.content, summary |-> r.summary]

\* INSERT INTO items (...) VALUES (...): PRIMARY KEY(id), CHECK(type), and the
\* statement must name only existing columns; the items_ai trigger, when
\* present, indexes the new row
InsertItemOk(d, item, withImagePath) ==
    /\ d.schema # "none"
    /\ withImagePath => d.image_path_col
    /\ item.ID \notin ItemIdsOf(d)
    /\ item.Type \in AllowedTypes(d.schema)

InsertItem(d, item, at) ==
    LET r == [rowid |-> NextRowid(d.items), id |-> item.ID, type |-> item.Type,
              url |-> item.URL, title |-> item.Title, content |-> item.Content,
              summary |-> item.Summary, raw_content |-> item.RawContent,
              image_path |-> item.ImagePath, created_at |-> at]
    IN [d EXCEPT !.items = @ \cup {r},
                 !.fts = IF d.triggers THEN @ \cup {FtsEntry(r)} ELSE @]

\* a transaction in progress: the working copy, statements executed, failed?
TxBegin(d) == [db |-> d, n |-> 0, err |-> FALSE]

\* tx.Exec of one statement: it fails when its constraints reject it or when
\* the injected fault (I/O error, SQLITE_FULL, ...) hits this statement
TxExec(tx, failAt, ok, after) ==
    IF tx.err THEN tx
    ELSE IF tx.n + 1 = failAt \/ ~ok THEN [tx EXCEPT !.n = @ + 1, !.err = TRUE]
    ELSE [db |-> after, n |-> tx.n + 1, err |-> FALSE]

\* setItemTags' per-tag normalisation
NormalizeStoredTag(tag) == ToLower(TrimSpace(tag))

\* INSERT INTO item_tags (item_id, tag_id) SELECT ?, id FROM tags WHERE name = ?
InsertItemTagOk(d, id, name) == name \in d.tags => <<id, name>> \notin d.item_tags

InsertItemTag(d, id, name) ==
    IF name \in d.tags THEN [d EXCEPT !.item_tags = @ \cup {<<id, name>>}] ELSE d

\* the loop of setItemTags over the tag list
RECURSIVE setItemTagsLoop(_, _, _, _)
setItemTagsLoop(tx, failAt, itemID, tags) ==
    IF tags = <<>> \/ tx.err THEN tx
    ELSE LET tag == NormalizeStoredTag(Head(tags))
         IN IF tag = <<>> THEN setItemTagsLoop(tx, failAt, itemID, Tail(tags))
            ELSE LET t1 == TxExec(tx, failAt, TRUE, [tx.db EXCEPT !.tags = @ \cup {tag}])
                     t2 == TxExec(t1, failAt, InsertItemTagOk(t1.db, itemID, tag),
                                  InsertItemTag(t1.db, itemID, tag))
                 IN setItemTagsLoop(t2, failAt, itemID, Tail(tags))

setItemTags(tx, failAt, itemID, tags) ==
    LET t0 == TxExec(tx, failAt, TRUE,
                     [tx.db EXCEPT !.item_tags = {a \in @ : a[1] # itemID}])
    IN setItemTagsLoop(t0, failAt, itemID, tags)

\* a rollback that leaves the statements executed so far in the database
Rollback_KeepsPartial(before, partial) == partial

\* defer tx.Rollback(): the database is as it was at Begin
Rollback(before, partial) == before

\* the transaction of CreateItem for an item whose ID is already assigned
CreateItemTx(d, item, at, failAt, withImagePath) ==
    LET t1 == TxExec(TxBegin(d), failAt, InsertItemOk(d, item, withImagePath),
                     InsertItem(d, item, at))
        t2 == setItemTags(t1, failAt, item.ID, item.Tags)
        t3 == TxExec(t2, failAt, TRUE, t2.db)
    IN IF t3.err THEN [db |-> Rollback(d, t3.db), err |-> TRUE]
       ELSE [db |-> t3.db, err |-> FALSE]

\* DELETE FROM items WHERE id = ?: ON DELETE CASCADE on item_tags and on both
\* ends of relationships; the items_ad trigger removes the row's index entry
\* a DELETE whose foreign keys do not cascade to relationships
DeleteItemRows_KeepsRelationships(d, id) ==
    LET gone == {r \in d.items : r.id = id}
    IN [d EXCEPT !.items = @ \ gone,
                 !.item_tags = {a \in @ : a[1] # id},
                 !.fts = IF d.triggers THEN @ \ {FtsEntry(r) : r \in gone} ELSE @]

DeleteItemRows(d, id) ==
    LET gone == {r \in d.items : r.id = id}
    IN [d EXCEPT !.items = @ \ gone,
                 !.item_tags = {a \in @ : a[1] # id},
                 !.relationships = {e \in @ : e.source_id # id /\ e.target_id # id},
                 !.fts = IF d.triggers THEN @ \ {FtsEntry(r) : r \in gone} ELSE @]

\* getItemTags: the names joined to the item (row order is unspecified, so
\* the list is kept as the set of its elements)
getItemTags(d, id) == {a[2] : a \in {b \in d.item_tags : b[1] = id /\ b[2] \in d.tags}}

Nil == [nil |-> TRUE]

\* a GetItem that forgets to load the tags
GetItem_NoTags(d, id) ==
    IF id \notin ItemIdsOf(d) THEN Nil
    ELSE LET r == RowOf(d, id)
         IN [ID |-> r.id, Type |-> r.type, URL |-> r.url, Title |-> r.title,
             Content |-> r.content, Summary |-> r.summary, RawContent |-> <<>>,
             ImagePath |-> r.image_path, Tags |-> {}]

\* GetItem: the SELECT lists every column but raw_content, so RawContent
\* keeps its zero value
GetItem(d, id) ==
    IF id \notin ItemIdsOf(d) THEN Nil
    ELSE LET r == RowOf(d, id)
         IN [ID |-> r.id, Type |-> r.type, URL |-> r.url, Title |-> r.title,
             Content |-> r.content, Summary |-> r.summary, RawContent |-> <<>>,
             ImagePath |-> r.image_path, Tags |-> getItemTags(d, r.id)]

\* GetAllTags: SELECT name FROM tags (the ORDER BY is not modelled here)
GetAllTags(d) == d.tags

\* ------------------------------------------------------------------------
\* RunMigrations
\* ------------------------------------------------------------------------
\* migrationSQL: CREATE TABLE / VIRTUAL TABLE / TRIGGER / INDEX, all IF NOT
\* EXISTS: an existing items table keeps its definition, missing triggers
\* are created
ApplyMigrationSQL(d) ==
    [d EXCEPT !.schema = IF @ = "none" THEN "current" ELSE @,
              !.image_path_col = IF d.schema = "none" THEN TRUE ELSE @,
              !.triggers = TRUE]

\* migrationAddImagePath: ALTER TABLE items ADD COLUMN, error ignored
AddImagePath(d) == [d EXCEPT !.image_path_col = TRUE]

\* the id of the probe row, '__test__' (never a UUID)
ProbeID == -1

\* INSERT INTO items (id, type, title) VALUES ('__test__', 'image', 'test')
ProbeItem ==
    [ID |-> ProbeID, Type |-> "image", URL |-> <<>>, Title |-> <<"t">>, Content |-> <<>>,
     Summary |-> <<>>, RawContent |-> <<>>, ImagePath |-> <<>>, Tags |-> <<>>]

\* migrationUpdateTypeConstraint: copy the rows into items_new (the column
\* list has neither rowid nor image_path, so rowids are reassigned 1..n in
\* scan order), DROP TABLE items (which drops the triggers defined on it),
\* rename items_new to items.  items_fts is not touched.
UpdateTypeConstraint(d) ==
    [d EXCEPT !.schema = "current",
              !.triggers = FALSE,
              !.items = {[r EXCEPT !.rowid = Cardinality({q \in d.items : q.rowid <= r.rowid}),
                                   !.image_path = <<>>] : r \in d.items}]

RunMigrations(d) ==
    LET d1 == ApplyMigrationSQL(d)
        d2 == AddImagePath(d1)
    IN IF ~InsertItemOk(d2, ProbeItem, FALSE)
       THEN UpdateTypeConstraint(d2)
       ELSE DeleteItemRows(InsertItem(d2, ProbeItem, 0), ProbeID)

\* ------------------------------------------------------------------------
\* Calls on one vault
\* ------------------------------------------------------------------------
Item(type, url, title, content, summary, raw, image, tags) ==
    [ID |-> NoID, Type |-> type, URL |-> url, Title |-> title, Content |-> content,
     Summary |-> summary, RawContent |-> raw, ImagePath |-> image, Tags |-> tags]

\* items handed to CreateItem: a plain note; a link with every text column
\* set and tags in upper case and with blanks; a note whose tags collide
\* after normalisation and contain a blank one; an image
ItemSamples ==
    { Item("note", <<>>, <<"A">>, <<"c">>, <<>>, <<>>, <<>>, << <<"g">> >>),
      Item("link", <<"u">>, <<"B">>, <<"e">>, <<"s">>, <<"r">>, <<>>,
           << <<"G">>, <<" ", "d", " ">> >>),
      Item("note", <<>>, <<"A">>, <<>>, <<>>, <<>>, <<>>, << <<"g">>, <<" ">>, <<"G">> >>),
      Item("image", <<>>, <<"I">>, <<>>, <<>>, <<>>, <<"p">>, <<>>) }

\* the longest tag list among the samples
MaxTags == 3

\* statement at which an injected fault hits a CreateItem transaction
\* (0: none): INSERT items, DELETE item_tags, two statements per tag, COMMIT
FaultPoints == 0..(2 * MaxTags + 3)

NoItem == Item("", <<>>, <<>>, <<>>, <<>>, <<>>, <<>>, <<>>)

NoRel == [source_id |-> NoID, target_id |-> NoID, relation_type |-> "", strength |-> 0]

\* why: the step of Process that failed; "replaced" when CreateRelationship
\* found a row of the same triple with another strength; "cascaded" when
\* DeleteItem found tag associations and relationships of the item; ""
\* otherwise
Ret(op, item, err, at) ==
    [op |-> op, item |-> item, rel |-> NoRel, err |-> err, why |-> "", at |-> at]

Calls == 1..NumCalls

\* no Process call in progress
IdleCall == [stage |-> "idle", item |-> NoItem, cancelled |-> FALSE]

DecimalDigits == <<"0", "1", "2", "3", "4", "5", "6", "7", "8", "9">>

\* fmt.Sprintf("%d", n)
RECURSIVE Sprintf_d(_)
Sprintf_d(n) ==
    IF n < 0 THEN <<"-">> \o Sprintf_d(0 - n)
    ELSE IF n < 10 THEN <<DecimalDigits[n + 1]>>
    ELSE Sprintf_d(n \div 10) \o <<DecimalDigits[(n % 10) + 1]>>

\* a Manager that keeps the vaults of all owners in one directory
UserDir_Shared(userID) == <<"users">>

\* Manager.UserDir: filepath.Join(dataDir, "users", fmt.Sprintf("%d", userID)),
\* as the list of the path elements below dataDir
UserDir(userID) == <<"users", Sprintf_d(userID)>>

\* dbPath of openVault
DbPath(userID) == UserDir(userID) \o <<"vault.db">>

\* a vault.db nobody has opened yet
NewFile == [db |-> FreshDB, settings |-> {}]

\* SELECT value FROM settings WHERE key = ?: the rows of the key (none:
\* sql.ErrNoRows)
GetSetting(f, key) == {kv[2] : kv \in {x \in f.settings : x[1] = key}}

\* INSERT INTO settings ... ON CONFLICT(key) DO UPDATE SET value
SetSetting(f, key, value) ==
    [f EXCEPT !.settings = {x \in @ : x[1] # key} \cup {<<key, value>>}]

Readers == 1..NumReaders

Handlers == 1..NumHandlers

\* no GetItem call in progress.  seen: every value an undivided GetItem(id)
\* would have returned at some moment of the call so far
IdleRead == [pc |-> "idle", id |-> NoID, row |-> Nil, res |-> Nil, seen |-> {}]

\* a handler goroutine without update.  want: the stored language setting
\* when getUserLang was entered ("" if none, or if a /lang command was
\* between its SetSetting and its CacheLang); dirty: the setting was written
\* during the getUserLang call
IdleHandler ==
    [pc |-> "idle", owner |-> 0, cmd |-> "", arg |-> <<>>, tg |-> <<>>,
     lang |-> "", want |-> "", dirty |-> FALSE]

AuxInit ==
    /\ rd = [r \in Readers |-> IdleRead]
    /\ closed = {}
    /\ files = [p \in {DbPath(o) : o \in Owners} |-> NewFile]
    /\ tn = [held |-> [o \in Owners |-> <<>>], actor |-> 0]
    /\ langCache = [o \in {} |-> ""]
    /\ hs = [h \in Handlers |-> IdleHandler]

\* a write committed on the vault: the calls between their two statements
\* have one more state of the item behind them
Observe(rdv, d) ==
    [r \in Readers |->
        IF rdv[r].pc = "tags"
        THEN [rdv[r] EXCEPT !.seen = @ \cup {GetItem(d, rdv[r].id)}]
        ELSE rdv[r]]

VaultInit ==
    /\ db \in {FreshDB, LegacyDB}
    /\ open = FALSE
    /\ now = 0
    /\ ret = Ret("none", NoItem, FALSE, 0)
    /\ calls = [t \in Calls |-> IdleCall]

\* the first release writing to its vault: the same transaction against the
\* legacy items table (no image_path column)
LegacyCreateItem(x, id) ==
    /\ ~open
    /\ db.schema = "legacy"
    /\ now < MaxClock
    /\ id \notin ItemIdsOf(db)
    /\ LET item == [x EXCEPT !.ID = id]
           r == CreateItemTx(db, item, now + 1, 0, FALSE)
       IN /\ db' = r.db
          /\ now' = now + 1
          /\ ret' = Ret("LegacyCreateItem", item, r.err, now + 1)
    /\ UNCHANGED <<open, mgrVars, auxVars, calls>>

LegacyDeleteItem(id) ==
    /\ ~open
    /\ db.schema = "legacy"
    /\ id \in ItemIdsOf(db)
    /\ db' = DeleteItemRows(db, id)
    /\ ret' = Ret("LegacyDeleteItem", [NoItem EXCEPT !.ID = id], FALSE, now)
    /\ UNCHANGED <<open, now, mgrVars, auxVars, calls>>

\* Manager.openVault on this vault, at first use and after every restart
OpenVault ==
    /\ db' = RunMigrations(db)
    /\ open' = TRUE
    /\ ret' = Ret("OpenVault", NoItem, FALSE, now)
    /\ UNCHANGED <<now, mgrVars, auxVars, calls>>

\* VaultStore.CreateItem: given is the caller's Item.ID, NoID for none
CreateItem(x, given, failAt) ==
    /\ open
    /\ now < MaxClock
    /\ \E id \in (IF given = NoID THEN ItemIDs \ ItemIdsOf(db) ELSE {given}) :
        LET item == [x EXCEPT !.ID = id]
            r == CreateItemTx(db, item, now + 1, failAt, TRUE)
        IN /\ db' = r.db
           /\ ret' = Ret("CreateItem", item, r.err, now + 1)
    /\ now' = now + 1
    /\ rd' = Observe(rd, db')
    /\ UNCHANGED <<open, mgrVars, restVars, calls>>

\* VaultStore.DeleteItem
DeleteItem(id) ==
    /\ open
    /\ db' = DeleteItemRows(db, id)
    /\ ret' = [Ret("DeleteItem", [NoItem EXCEPT !.ID = id], FALSE, now) EXCEPT
                  !.why = IF /\ \E a \in db.item_tags : a[1] = id
                             /\ \E e \in db.relationships : id \in {e.source_id, e.target_id}
                          THEN "cascaded" ELSE ""]
    /\ rd' = Observe(rd, db')
    /\ UNCHANGED <<open, now, mgrVars, restVars, calls>>

\* ------------------------------------------------------------------------
\* Relationships (relationships.go)
\* ------------------------------------------------------------------------
\* relation types written to a vault: the pipeline's two and one of the LLM's
RelTypes == {"link", "tag", "similar_topic"}

\* strengths written with each type: 1.0 for wikilinks, 0.4 + 0.15 for one
\* shared tag, an LLM score for the rest
Strengths(ty) ==
    CASE ty = "link" -> {100}
      [] ty = "tag" -> {55}
      [] OTHER -> {70}

\* cap on the rows of the relationships table
MaxRels == 2

\* an insert that skips the REFERENCES items(id) check
RelationshipFkOk_Unchecked(d, rel) == TRUE

\* source_id and target_id REFERENCES items(id), foreign_keys(1)
RelationshipFkOk(d, rel) ==
    rel.source_id \in ItemIdsOf(d) /\ rel.target_id \in ItemIdsOf(d)

SameTriple(e, f) ==
    /\ e.source_id = f.source_id
    /\ e.target_id = f.target_id
    /\ e.relation_type = f.relation_type

\* an INSERT OR IGNORE: the row that conflicts stays
InsertOrReplaceRelationship_Ignore(d, rel) ==
    IF \E e \in d.relationships : SameTriple(e, rel) THEN d
    ELSE [d EXCEPT !.relationships = @ \cup {rel}]

\* INSERT OR REPLACE INTO relationships: the row that conflicts on
\* UNIQUE(source_id, target_id, relation_type) is replaced
InsertOrReplaceRelationship(d, rel) ==
    [d EXCEPT !.relationships =
        {e \in @ : ~(e.source_id = rel.source_id /\ e.target_id = rel.target_id
                     /\ e.relation_type = rel.relation_type)} \cup {rel}]

\* VaultStore.CreateRelationship as a function of the database
CreateRelationshipExec(d, rel) ==
    IF RelationshipFkOk(d, rel)
    THEN [db |-> InsertOrReplaceRelationship(d, rel), err |-> FALSE]
    ELSE [db |-> d, err |-> TRUE]

\* relationshipPairKey: the two ids, smaller first
relationshipPairKey(sourceID, targetID) ==
    IF sourceID < targetID THEN <<sourceID, targetID>> ELSE <<targetID, sourceID>>

\* a GetGraph that keys the link pairs by direction
GetGraphRels_Directed(d) ==
    LET rels == {e \in d.relationships : e.relation_type = "link"}
        tagRels == {e \in d.relationships : e.relation_type = "tag"}
        linkPairs == {<<e.source_id, e.target_id>> : e \in rels}
    IN rels \cup {e \in tagRels : <<e.source_id, e.target_id>> \notin linkPairs}

\* the edge list of GetGraph: the first pass keeps the link rows and their
\* pair keys, sets the tag rows aside and skips every other type; the second
\* pass appends the tag rows whose pair has no link
GetGraphRels(d) ==
    LET rels == {e \in d.relationships : e.relation_type = "link"}
        tagRels == {e \in d.relationships : e.relation_type = "tag"}
        linkPairs == {relationshipPairKey(e.source_id, e.target_id) : e \in rels}
    IN rels \cup {e \in tagRels :
                    relationshipPairKey(e.source_id, e.target_id) \notin linkPairs}

\* VaultStore.CreateRelationship
CreateRelationship(rel) ==
    /\ open
    /\ LET r == CreateRelationshipExec(db, rel)
       IN /\ Cardinality(r.db.relationships) <= MaxRels
          /\ db' = r.db
          /\ ret' = [Ret("CreateRelationship", NoItem, r.err, now) EXCEPT
                        !.rel = rel,
                        !.why = IF ~r.err /\ \E e \in db.relationships :
                                                SameTriple(e, rel) /\ e # rel
                                THEN "replaced" ELSE ""]
    /\ UNCHANGED <<open, now, mgrVars, auxVars, calls>>

\* VaultStore.DeleteRelationship: every row from source to target
DeleteRelationship(sourceID, targetID) ==
    /\ open
    /\ db' = [db EXCEPT !.relationships =
                {e \in @ : ~(e.source_id = sourceID /\ e.target_id = targetID)}]
    /\ ret' = Ret("DeleteRelationship", NoItem, FALSE, now)
    /\ UNCHANGED <<open, now, mgrVars, auxVars, calls>>

\* ------------------------------------------------------------------------
\* Text parsing of the pipeline (extractTitleFromNote, extractHashTags,
\* extractWikiLinkTargets, normalizeTitle, mergeTags)
\* ------------------------------------------------------------------------
\* strings.Split on a one-character separator
RECURSIVE Split(_, _)
Split(s, sep) ==
    IF \A i \in 1..Len(s) : s[i] # sep THEN <<s>>
    ELSE LET k == CHOOSE i \in 1..Len(s) : s[i] = sep /\ \A j \in 1..(i - 1) : s[j] # sep
         IN <<SubSeq(s, 1, k - 1)>> \o Split(SubSeq(s, k + 1, Len(s)), sep)

\* strings.Fields: the maximal runs of non-space characters
RECURSIVE Fields(_)
Fields(s) ==
    LET t == TrimLeft(s)
    IN IF t = <<>> THEN <<>>
       ELSE LET n == CHOOSE k \in 1..Len(t) :
                        /\ \A j \in 1..k : ~IsSpace(t[j])
                        /\ k = Len(t) \/ IsSpace(t[k + 1])
            IN <<SubSeq(t, 1, n)>> \o Fields(SubSeq(t, n + 1, Len(t)))

\* strings.Join
RECURSIVE Join(_, _)
Join(parts, sep) ==
    IF parts = <<>> THEN <<>>
    ELSE IF Len(parts) = 1 THEN parts[1]
    ELSE parts[1] \o sep \o Join(Tail(parts), sep)

normalizeTitle(title) ==
    IF title = <<>> THEN <<>>
    ELSE Join(Fields(ToLower(TrimSpace(title))), <<" ">>)

normalizeTag(tag) == ToLower(TrimSpace(tag))

\* the list without its empty and its repeated elements, first ones kept
RECURSIVE Dedup(_, _)
Dedup(list, seen) ==
    IF list = <<>> THEN <<>>
    ELSE IF Head(list) = <<>> \/ Head(list) \in seen THEN Dedup(Tail(list), seen)
    ELSE <<Head(list)>> \o Dedup(Tail(list), seen \cup {Head(list)})

\* f applied to every element of a list of strings
RECURSIVE MapNormalizeTag(_)
MapNormalizeTag(list) ==
    IF list = <<>> THEN <<>> ELSE <<normalizeTag(Head(list))>> \o MapNormalizeTag(Tail(list))

\* normalizeTags: normalized, empties dropped, repeats kept
RECURSIVE normalizeTags(_)
normalizeTags(tags) ==
    IF tags = <<>> THEN <<>>
    ELSE LET tag == normalizeTag(Head(tags))
         IN IF tag = <<>> THEN normalizeTags(Tail(tags))
            ELSE <<tag>> \o normalizeTags(Tail(tags))

\* mergeTags: primary then secondary, normalized, empties and repeats dropped
mergeTags(primary, secondary) == Dedup(MapNormalizeTag(primary \o secondary), {})

\* [^\[\]]
NotBracket(c) == c \notin {"[", "]"}

RECURSIVE WikiRun(_, _)
WikiRun(s, i) == IF i <= Len(s) /\ NotBracket(s[i]) THEN 1 + WikiRun(s, i + 1) ELSE 0

\* wikiLinkPattern \[\[([^\[\]]+)\]\] tried at position i: the position of
\* the match's last character, 0 for no match
WikiMatchAt(s, i) ==
    IF i + 1 <= Len(s) /\ s[i] = "[" /\ s[i + 1] = "["
    THEN LET n == WikiRun(s, i + 2)
             e == i + 2 + n
         IN IF n >= 1 /\ e + 1 <= Len(s) /\ s[e] = "]" /\ s[e + 1] = "]" THEN e + 1 ELSE 0
    ELSE 0

\* FindAllStringSubmatch: group 1 of the leftmost non-overlapping matches
RECURSIVE WikiMatches(_, _)
WikiMatches(s, i) ==
    IF i > Len(s) THEN <<>>
    ELSE LET e == WikiMatchAt(s, i)
         IN IF e = 0 THEN WikiMatches(s, i + 1)
            ELSE <<SubSeq(s, i + 2, e - 2)>> \o WikiMatches(s, e + 1)

normalizeWikiTarget(raw) ==
    normalizeTitle(TrimSpace(Head(Split(Head(Split(raw, "|")), "#"))))

RECURSIVE MapNormalizeWikiTarget(_)
MapNormalizeWikiTarget(list) ==
    IF list = <<>> THEN <<>>
    ELSE <<normalizeWikiTarget(Head(list))>> \o MapNormalizeWikiTarget(Tail(list))

extractWikiLinkTargets(content) == Dedup(MapNormalizeWikiTarget(WikiMatches(content, 1)), {})

\* \p{L} and \p{N} over the characters the inputs use
Letters == {"a", "b", "c", "d", "e", "g", "o", "x", "A", "B", "G"}

Digits == {"0", "1"}

\* [\p{L}\p{N}_-]
IsTagChar(c) == c \in Letters \cup Digits \cup {"_", "-"}

RECURSIVE TagRun(_, _)
TagRun(s, i) == IF i <= Len(s) /\ IsTagChar(s[i]) THEN 1 + TagRun(s, i + 1) ELSE 0

\* (?:/[\p{L}\p{N}_-]+)* from position i: the position after the last segment
RECURSIVE TagSegs(_, _)
TagSegs(s, i) ==
    IF i <= Len(s) /\ s[i] = "/" /\ TagRun(s, i + 1) >= 1
    THEN TagSegs(s, i + 1 + TagRun(s, i + 1))
    ELSE i

\* hashTagPattern tried at position i: [from |-> first character of group 1,
\* to |-> position after the match], from = 0 for no match
HashMatchAt(s, i) ==
    LET h == IF i = 1 /\ s[1] = "#" THEN 1
             ELSE IF IsSpace(s[i]) /\ i < Len(s) /\ s[i + 1] = "#" THEN i + 1
             ELSE 0
    IN IF h # 0 /\ h < Len(s) /\ s[h + 1] \in Letters \cup Digits
       THEN [from |-> h + 1, to |-> TagSegs(s, h + 2 + TagRun(s, h + 2))]
       ELSE [from |-> 0, to |-> 0]

RECURSIVE HashMatches(_, _)
HashMatches(s, i) ==
    IF i > Len(s) THEN <<>>
    ELSE LET m == HashMatchAt(s, i)
         IN IF m.from = 0 THEN HashMatches(s, i + 1)
            ELSE <<SubSeq(s, m.from, m.to - 1)>> \o HashMatches(s, m.to)

extractHashTags(text) == Dedup(MapNormalizeTag(HashMatches(text, 1)), {})

\* the number of leading '#' of a line
RECURSIVE HashCount(_)
HashCount(line) == IF line # <<>> /\ Head(line) = "#" THEN 1 + HashCount(Tail(line)) ELSE 0

\* the loop of extractTitleFromNote over the lines
RECURSIVE TitleFromLines(_)
TitleFromLines(lines) ==
    IF lines = <<>> THEN <<>>
    ELSE LET trimmed == TrimSpace(Head(lines))
         IN IF trimmed = <<>> THEN TitleFromLines(Tail(lines))
            ELSE IF HashCount(trimmed) = 1 THEN TrimSpace(Tail(trimmed))
            ELSE <<>>

extractTitleFromNote(text) == TitleFromLines(Split(text, "\n"))

\* ------------------------------------------------------------------------
\* Relationship inference of the pipeline (findAndCreateRelationships)
\* ------------------------------------------------------------------------
\* the limit findAndCreateRelationships passes to ListItems
GraphItemLimit == 1000

\* the rows by created_at DESC (rows of one instant in table order)
SortDesc(rows) ==
    LET Before(q, r) ==
            \/ q.created_at > r.created_at
            \/ q.created_at = r.created_at /\ q.rowid < r.rowid
        ranked == {<<Cardinality({q \in rows : Before(q, r)}), r>> : r \in rows}
    IN [i \in 1..Cardinality(rows) |-> (CHOOSE p \in ranked : p[1] = i - 1)[2]]

\* a set of strings as a list, in an arbitrary order
RECURSIVE SetToSeq(_)
SetToSeq(S) ==
    IF S = {} THEN <<>> ELSE LET x == CHOOSE y \in S : TRUE IN <<x>> \o SetToSeq(S \ {x})

\* ListItems: newest first, each item with its tags, raw_content not selected
ListItems(d, limit, offset) ==
    LET all == SortDesc(d.items)
        last == IF Len(all) < offset + limit THEN Len(all) ELSE offset + limit
    IN [i \in 1..(IF last > offset THEN last - offset ELSE 0) |->
          LET r == all[offset + i]
          IN [ID |-> r.id, Type |-> r.type, URL |-> r.url, Title |-> r.title,
              Content |-> r.content, Summary |-> r.summary, RawContent |-> <<>>,
              ImagePath |-> r.image_path, Tags |-> SetToSeq(getItemTags(d, r.id))]]

\* fixed strings of the pipeline
UNCAT == <<"u", "n", "c", "a", "t", "e", "g", "o", "r", "i", "z", "e", "d">>

IMAGE == <<"i", "m", "a", "g", "e">>

SEARCH == <<"s", "e", "a", "r", "c", "h">>

LINK == <<"l", "i", "n", "k">>

NOTE == <<"n", "o", "t", "e">>

ImageTitle == <<"I", "m", "a", "g", "e">>

Ellipsis == <<".", ".", ".">>

NoResultsText == <<"(", "N", "o", " ", "s", "e", "a", "r", "c", "h", " ", "r", "e", "s", "u", "l", "t", "s", " ", "f", "o", "u", "n", "d", ")">>

SearchResultFor == <<"S", "e", "a", "r", "c", "h", " ", "r", "e", "s", "u", "l", "t", " ", "f", "o", "r", ":", " ">>

SummaryLabel == <<"S", "u", "m", "m", "a", "r", "y", ":", " ">>

URLLabel == <<"U", "R", "L", ":", " ">>

\* tags that say nothing about the topic
GraphIgnoredTags == {UNCAT, IMAGE, SEARCH, LINK, NOTE}

RECURSIVE filterGraphTags(_)
filterGraphTags(tags) ==
    IF tags = <<>> THEN <<>>
    ELSE IF Head(tags) \in GraphIgnoredTags THEN filterGraphTags(Tail(tags))
    ELSE <<Head(tags)>> \o filterGraphTags(Tail(tags))

\* countSharedTags: the elements of the list right found in the set left
RECURSIVE countSharedTags(_, _)
countSharedTags(left, right) ==
    IF right = <<>> THEN 0
    ELSE (IF Head(right) \in left THEN 1 ELSE 0) + countSharedTags(left, Tail(right))

\* a strength that is not capped at 1.0
tagOverlapStrength_Uncapped(overlap) ==
    IF overlap <= 0 THEN 0 ELSE 40 + 15 * overlap

\* tagOverlapStrength, in hundredths: 0.4 + 0.15 per shared tag, at most 1.0
tagOverlapStrength(overlap) ==
    IF overlap <= 0 THEN 0
    ELSE IF 40 + 15 * overlap > 100 THEN 100
    ELSE 40 + 15 * overlap

\* a pair left in the order given
orderedPair_AsGiven(a, b) == <<a, b>>

orderedPair(a, b) == IF a < b THEN <<a, b>> ELSE <<b, a>>

\* buildTitleIndex: normalized title -> the first listed item that has it
buildTitleIndex(items) ==
    LET keys == {normalizeTitle(items[i].Title) : i \in 1..Len(items)} \ {<<>>}
    IN [k \in keys |->
          items[CHOOSE i \in 1..Len(items) :
                    /\ normalizeTitle(items[i].Title) = k
                    /\ \A j \in 1..(i - 1) : normalizeTitle(items[j].Title) # k]]

itemLinksToTitle(item, titleKey) ==
    IF titleKey = <<>> \/ item.Content = <<>> THEN FALSE
    ELSE LET targets == extractWikiLinkTargets(item.Content)
         IN \E i \in 1..Len(targets) : targets[i] = titleKey

LinkRel(source, target) ==
    [source_id |-> source, target_id |-> target, relation_type |-> "link", strength |-> 100]

\* the loop over the new item's wikilink targets; acc = [db, linked]
RECURSIVE LinkForward(_, _, _, _)
LinkForward(acc, item, titleIndex, targets) ==
    IF targets = <<>> THEN acc
    ELSE IF Head(targets) \notin DOMAIN titleIndex
            \/ titleIndex[Head(targets)].ID = item.ID
         THEN LinkForward(acc, item, titleIndex, Tail(targets))
    ELSE LET target == titleIndex[Head(targets)]
             r == CreateRelationshipExec(acc.db, LinkRel(item.ID, target.ID))
         IN IF r.err THEN LinkForward(acc, item, titleIndex, Tail(targets))
            ELSE LinkForward([db |-> r.db, linked |-> acc.linked \cup {target.ID}],
                             item, titleIndex, Tail(targets))

\* the loop over the listed items that link to the new item's title
RECURSIVE LinkBackward(_, _, _, _)
LinkBackward(acc, item, newTitleKey, others) ==
    IF others = <<>> THEN acc
    ELSE IF Head(others).ID = item.ID \/ ~itemLinksToTitle(Head(others), newTitleKey)
         THEN LinkBackward(acc, item, newTitleKey, Tail(others))
    ELSE LET r == CreateRelationshipExec(acc.db, LinkRel(Head(others).ID, item.ID))
         IN IF r.err THEN LinkBackward(acc, item, newTitleKey, Tail(others))
            ELSE LinkBackward([db |-> r.db, linked |-> acc.linked \cup {Head(others).ID}],
                              item, newTitleKey, Tail(others))

\* a tag loop that forgets which items the link loops connected
AlreadyLinked_Forgotten(linkedIDs, otherID) == FALSE

\* the linkedIDs lookup of the tag loop
AlreadyLinked(linkedIDs, otherID) == otherID \in linkedIDs

\* the loop over the listed items that share a topical tag with the new item
RECURSIVE TagEdges(_, _, _, _)
TagEdges(acc, item, newTagSet, others) ==
    IF others = <<>> THEN acc
    ELSE LET other == Head(others)
             overlap == countSharedTags(newTagSet, filterGraphTags(normalizeTags(other.Tags)))
         IN IF other.ID = item.ID \/ AlreadyLinked(acc.linked, other.ID) \/ overlap = 0
            THEN TagEdges(acc, item, newTagSet, Tail(others))
            ELSE LET pair == orderedPair(item.ID, other.ID)
                     r == CreateRelationshipExec(acc.db,
                              [source_id |-> pair[1], target_id |-> pair[2],
                               relation_type |-> "tag",
                               strength |-> tagOverlapStrength(overlap)])
                 IN TagEdges([acc EXCEPT !.db = IF r.err THEN @ ELSE r.db],
                             item, newTagSet, Tail(others))

\* findAndCreateRelationships: the database after the three loops
findAndCreateRelationships(d, item) ==
    LET allItems == ListItems(d, GraphItemLimit, 0)
        titleIndex == buildTitleIndex(allItems)
        newTitleKey == normalizeTitle(item.Title)
        a1 == LinkForward([db |-> d, linked |-> {}], item, titleIndex,
                          extractWikiLinkTargets(item.Content))
        a2 == IF newTitleKey # <<>> THEN LinkBackward(a1, item, newTitleKey, allItems) ELSE a1
        newTags == filterGraphTags(normalizeTags(item.Tags))
        a3 == IF Len(newTags) > 0 THEN TagEdges(a2, item, Range(newTags), allItems) ELSE a2
    IN IF Len(allItems) <= 1 THEN d ELSE a3.db

\* ------------------------------------------------------------------------
\* Pipeline.Process and the four content types
\* ------------------------------------------------------------------------
\* lengths at which the fallback titles of notes and captions are cut
NoteTitleLimit == 50

CaptionTitleLimit == 100

Truncate(title, limit) ==
    IF Len(title) > limit THEN SubSeq(title, 1, limit) \o Ellipsis ELSE title

RawContent(type, url, text, caption) ==
    [Type |-> type, URL |-> url, Text |-> text, Caption |-> caption]

\* submissions: a note titled A that links to B, a note titled B, both
\* tagged #g; a link; an image without and with caption; a search; a type
\* the pipeline does not know
NoteA == RawContent("note", <<>>, <<"#", " ", "A", "\n", "[", "[", "B", "]", "]", " ", "#", "g">>, <<>>)

NoteB == RawContent("note", <<>>, <<"#", " ", "B", "\n", "#", "g">>, <<>>)

LinkU == RawContent("link", <<"u">>, <<>>, <<>>)

BareImage == RawContent("image", <<>>, <<>>, <<>>)

CaptionedImage == RawContent("image", <<>>, <<>>, <<"x", " ", "#", "g">>)

SearchQ == RawContent("search", <<>>, <<"q">>, <<>>)

Video == RawContent("video", <<>>, <<>>, <<>>)

RawSamples == {NoteA, NoteB, LinkU, BareImage, CaptionedImage, SearchQ, Video}

\* what the LLM client returns: an error, or the decoded JSON object, whose
\* title and tags are whatever the model wrote
Processed(err, title, summary, tags) ==
    [err |-> err, Title |-> title, Summary |-> summary, Tags |-> tags]

LLMFailed == Processed(TRUE, <<>>, <<>>, <<>>)

LLMTagged == Processed(FALSE, <<"B">>, <<"s">>, << <<"g">>, <<"a">> >>)

LLMManyTags ==
    Processed(FALSE, <<"B">>, <<"s">>, << <<"a">>, <<"b">>, <<"c">>, <<"d">>, <<"e">>, NOTE >>)

\* two tags that are one after lowercasing
LLMColliding == Processed(FALSE, <<"A">>, <<"s">>, << <<"G">>, <<"g">> >>)

LLMUntitled == Processed(FALSE, <<>>, <<>>, <<>>)

LLMOutcomes == {LLMFailed, LLMTagged, LLMManyTags, LLMColliding, LLMUntitled}

\* what the extractor returns for the URL: an error, an article, an article
\* in which readability found no title
ExtractFailed == [err |-> TRUE, Title |-> <<>>, Content |-> <<>>, Excerpt |-> <<>>]

ExtractedArticle == [err |-> FALSE, Title |-> <<"A">>, Content |-> <<"c">>, Excerpt |-> <<"e">>]

ExtractedUntitled == [err |-> FALSE, Title |-> <<>>, Content |-> <<"c">>, Excerpt |-> <<>>]

ExtractOutcomes == {ExtractFailed, ExtractedArticle, ExtractedUntitled}

\* what the search client returns for the topic
SearchFailed == [err |-> TRUE, Abstract |-> <<>>, AbstractURL |-> <<>>]

SearchFound == [err |-> FALSE, Abstract |-> <<"a">>, AbstractURL |-> <<"u">>]

SearchOutcomes == {SearchFailed, SearchFound}

\* Result.FormatForLLM of a result with abstract and URL only
FormatForLLM(r) ==
    IF r.Abstract = <<>> THEN <<>>
    ELSE SummaryLabel \o r.Abstract \o <<"\n">>
         \o (IF r.AbstractURL # <<>> THEN URLLabel \o r.AbstractURL \o <<"\n">> ELSE <<>>)
         \o <<"\n">>

Built(item) == [err |-> FALSE, item |-> item]

processLink(raw, extracted, processed) ==
    IF extracted.err
    THEN Built(Item("link", raw.URL, raw.URL, raw.Text, <<>>, <<>>, <<>>, <<UNCAT>>))
    ELSE IF processed.err
    THEN Built(Item("link", raw.URL, extracted.Title, extracted.Excerpt, <<>>,
                    extracted.Content, <<>>, <<UNCAT>>))
    ELSE Built(Item("link", raw.URL, processed.Title, extracted.Excerpt, processed.Summary,
                    extracted.Content, <<>>, processed.Tags))

processNote(raw, processed) ==
    LET explicitTitle == extractTitleFromNote(raw.Text)
        explicitTags == extractHashTags(raw.Text)
    IN IF processed.err
       THEN Built(Item("note", <<>>,
                       IF explicitTitle = <<>> THEN Truncate(raw.Text, NoteTitleLimit)
                       ELSE explicitTitle,
                       raw.Text, <<>>, <<>>, <<>>, mergeTags(<<UNCAT>>, explicitTags)))
       ELSE Built(Item("note", <<>>,
                       IF explicitTitle # <<>> THEN explicitTitle ELSE processed.Title,
                       raw.Text, processed.Summary, <<>>, <<>>,
                       mergeTags(processed.Tags, explicitTags)))

\* images/<id>.<ext>
ImagePathOf(itemID) == <<"p", ToString(itemID)>>

processImage(raw, itemID, blobOk, processed) ==
    LET explicitTags == extractHashTags(raw.Caption)
        made(title, content, summary, tags) ==
            Built([Item("image", <<>>, title, content, summary, <<>>,
                        ImagePathOf(itemID), tags) EXCEPT !.ID = itemID])
    IN IF ~blobOk THEN [err |-> TRUE, item |-> NoItem]
       ELSE IF raw.Caption = <<>> THEN made(ImageTitle, <<>>, <<>>, <<IMAGE>>)
       ELSE IF processed.err
       THEN made(Truncate(raw.Caption, CaptionTitleLimit), raw.Caption, <<>>,
                 mergeTags(<<IMAGE, UNCAT>>, explicitTags))
       ELSE made(processed.Title, raw.Caption, processed.Summary,
                 mergeTags(processed.Tags, explicitTags \o <<IMAGE>>))

processSearch(raw, found, processed) ==
    LET topic == raw.Text
        searchResult == IF found.err THEN [err |-> TRUE, Abstract |-> <<>>, AbstractURL |-> <<>>]
                        ELSE found
        formatted == FormatForLLM(searchResult)
        searchText == IF formatted = <<>> THEN NoResultsText ELSE formatted
    IN IF processed.err
       THEN Built(Item("search", searchResult.AbstractURL, topic, searchText,
                       IF searchResult.Abstract = <<>> THEN SearchResultFor \o topic
                       ELSE searchResult.Abstract,
                       <<>>, <<>>, <<SEARCH, UNCAT>>))
       ELSE Built(Item("search", searchResult.AbstractURL, processed.Title, searchText,
                       processed.Summary, <<>>, <<>>, processed.Tags))

KnownTypes == {"link", "note", "image", "search"}

\* Pipeline.Process, start to return. why names the step that failed:
\* "vault" (GetVault), "type" (unknown content type), "blob" (image
\* directory or file), "save" (CreateItem)
Process(raw, vaultOk, extracted, found, blobOk, processed) ==
    /\ open
    /\ now < MaxClock
    /\ \E id \in ItemIDs \ ItemIdsOf(db) :
        LET out == CASE raw.Type = "link" -> processLink(raw, extracted, processed)
                     [] raw.Type = "note" -> processNote(raw, processed)
                     [] raw.Type = "image" -> processImage(raw, id, blobOk, processed)
                     [] raw.Type = "search" -> processSearch(raw, found, processed)
                     [] OTHER -> [err |-> TRUE, item |-> NoItem]
            item == [out.item EXCEPT !.ID = id]
            saved == CreateItemTx(db, item, now + 1, 0, TRUE)
            failed(why) == /\ db' = db
                           /\ ret' = [Ret("Process", NoItem, TRUE, now + 1) EXCEPT
                                         !.why = why, !.item.Type = raw.Type]
        IN IF ~vaultOk THEN failed("vault")
           ELSE IF raw.Type \notin KnownTypes THEN failed("type")
           ELSE IF out.err THEN failed("blob")
           ELSE IF saved.err
           THEN /\ db' = saved.db
                /\ ret' = [Ret("Process", item, TRUE, now + 1) EXCEPT !.why = "save"]
           ELSE /\ db' = findAndCreateRelationships(saved.db, item)
                /\ ret' = Ret("Process", item, FALSE, now + 1)
    /\ now' = now + 1
    /\ UNCHANGED <<open, mgrVars, auxVars, calls>>

\* ------------------------------------------------------------------------
\* Pipeline.Process stage by stage: the calls out of the process (extractor,
\* search, LLM), CreateItem, findAndCreateRelationships.  The request
\* context can be cancelled during the first stage and between stages.
\* ------------------------------------------------------------------------
\* ids of the items of the calls in progress
IdsInFlight == {calls[t].item.ID : t \in DOMAIN calls} \ {NoID}

\* Process up to the return of the content type's handler.  With the context
\* cancelled during the stage the LLM request, the last call of each
\* handler, has failed with the context's error.
StageBuild(t, c, cancelled) ==
    /\ open
    /\ calls[t].stage = "idle"
    /\ cancelled => c.processed.err
    /\ \E id \in ItemIDs \ (ItemIdsOf(db) \cup IdsInFlight) :
        LET raw == c.raw
            out == CASE raw.Type = "link" -> processLink(raw, c.extracted, c.processed)
                     [] raw.Type = "note" -> processNote(raw, c.processed)
                     [] raw.Type = "image" -> processImage(raw, id, c.blobOk, c.processed)
                     [] raw.Type = "search" -> processSearch(raw, c.found, c.processed)
                     [] OTHER -> [err |-> TRUE, item |-> NoItem]
            failed(why) == /\ calls' = calls
                           /\ ret' = [Ret("Process", NoItem, TRUE, now) EXCEPT
                                         !.why = why, !.item.Type = raw.Type]
        IN IF ~c.vaultOk THEN failed("vault")
           ELSE IF raw.Type \notin KnownTypes THEN failed("type")
           ELSE IF out.err THEN failed("blob")
           ELSE /\ calls' = [calls EXCEPT ![t] = [stage |-> "built",
                                                  item |-> [out.item EXCEPT !.ID = id],
                                                  cancelled |-> cancelled]]
                /\ ret' = Ret("build", NoItem, FALSE, now)
    /\ UNCHANGED <<db, open, now, mgrVars, auxVars>>

\* a Process that goes on to the relationships whatever CreateItem returned
StageSave_IgnoresError(t) ==
    /\ calls[t].stage = "built"
    /\ now < MaxClock
    /\ LET saved == CreateItemTx(db, calls[t].item, now + 1, 0, TRUE)
       IN /\ db' = saved.db
          /\ calls' = [calls EXCEPT ![t].stage = "saved"]
          /\ ret' = Ret("save", calls[t].item, saved.err, now + 1)
    /\ now' = now + 1
    /\ UNCHANGED <<open, mgrVars, auxVars>>

\* vault.CreateItem(item) and the return on its error
StageSave(t) ==
    /\ calls[t].stage = "built"
    /\ now < MaxClock
    /\ LET saved == CreateItemTx(db, calls[t].item, now + 1, 0, TRUE)
       IN /\ db' = saved.db
          /\ IF saved.err
             THEN /\ calls' = [calls EXCEPT ![t] = IdleCall]
                  /\ ret' = [Ret("Process", calls[t].item, TRUE, now + 1) EXCEPT
                                !.why = "save"]
             ELSE /\ calls' = [calls EXCEPT ![t].stage = "saved"]
                  /\ ret' = Ret("save", calls[t].item, FALSE, now + 1)
    /\ now' = now + 1
    /\ UNCHANGED <<open, mgrVars, auxVars>>

\* p.findAndCreateRelationships(ctx, vault, item) and the return of the item
StageInfer(t) ==
    /\ calls[t].stage = "saved"
    /\ db' = findAndCreateRelationships(db, calls[t].item)
    /\ calls' = [calls EXCEPT ![t] = IdleCall]
    /\ ret' = Ret("Process", calls[t].item, FALSE, now)
    /\ UNCHANGED <<open, now, mgrVars, auxVars>>

\* the caller cancels the context of a call between two stages
Cancel(t) ==
    /\ calls[t].stage \in {"built", "saved"}
    /\ ~calls[t].cancelled
    /\ calls' = [calls EXCEPT ![t].cancelled = TRUE]
    /\ ret' = Ret("cancel", NoItem, FALSE, now)
    /\ UNCHANGED <<db, open, now, mgrVars, auxVars>>

\* ------------------------------------------------------------------------
\* Relationship inference by LLM suggestions (internal/ingest/pipeline.go)
\* ------------------------------------------------------------------------
\* the limit this findAndCreateRelationships passes to ListItems
SuggestItemLimit == 200

\* the number of items offered to the LLM
RelevantLimit == 50

\* suggestions weaker than 0.7 are skipped
SuggestionThreshold == 70

RECURSIVE MapToLower(_)
MapToLower(list) ==
    IF list = <<>> THEN <<>> ELSE <<ToLower(Head(list))>> \o MapToLower(Tail(list))

\* the tags of the list found, lowercased, in tagSet
RECURSIVE tagScore(_, _)
tagScore(tagSet, tags) ==
    IF tags = <<>> THEN 0
    ELSE (IF ToLower(Head(tags)) \in tagSet THEN 1 ELSE 0) + tagScore(tagSet, Tail(tags))

\* the items other than excludeID that share a tag, in listing order
RECURSIVE Scored(_, _, _)
Scored(items, tagSet, excludeID) ==
    IF items = <<>> THEN <<>>
    ELSE IF Head(items).ID = excludeID \/ tagScore(tagSet, Head(items).Tags) = 0
         THEN Scored(Tail(items), tagSet, excludeID)
    ELSE <<Head(items)>> \o Scored(Tail(items), tagSet, excludeID)

\* sort.SliceStable by tagScore, descending
RECURSIVE SortByScore(_, _)
SortByScore(scored, tagSet) ==
    IF scored = <<>> THEN <<>>
    ELSE LET best == CHOOSE i \in 1..Len(scored) :
                        /\ \A j \in 1..Len(scored) :
                              tagScore(tagSet, scored[j].Tags) <= tagScore(tagSet, scored[i].Tags)
                        /\ \A j \in 1..(i - 1) :
                              tagScore(tagSet, scored[j].Tags) < tagScore(tagSet, scored[i].Tags)
             rest == [k \in 1..(Len(scored) - 1) |->
                         IF k < best THEN scored[k] ELSE scored[k + 1]]
         IN <<scored[best]>> \o SortByScore(rest, tagSet)

selectRelevantItems(allItems, newItemTags, excludeID) ==
    LET tagSet == Range(MapToLower(newItemTags))
        sorted == SortByScore(Scored(allItems, tagSet, excludeID), tagSet)
    IN SubSeq(sorted, 1, IF Len(sorted) < RelevantLimit THEN Len(sorted) ELSE RelevantLimit)

\* createRelationshipsFromSuggestions: the database after the loop
RECURSIVE createRelationshipsFromSuggestions(_, _, _)
createRelationshipsFromSuggestions(d, sourceID, suggestions) ==
    IF suggestions = <<>> THEN d
    ELSE LET s == Head(suggestions)
             r == CreateRelationshipExec(d, [source_id |-> sourceID, target_id |-> s.TargetID,
                                             relation_type |-> s.RelationType,
                                             strength |-> s.Strength])
         IN IF s.Strength < SuggestionThreshold
            THEN createRelationshipsFromSuggestions(d, sourceID, Tail(suggestions))
            ELSE createRelationshipsFromSuggestions(IF r.err THEN d ELSE r.db, sourceID,
                                                    Tail(suggestions))

\* findAndCreateRelationships of pipeline.go: found is what FindRelationships
\* returns, an error or the decoded list of suggestions
findAndCreateRelationshipsLLM(d, item, found) ==
    LET allItems == ListItems(d, SuggestItemLimit, 0)
        relevantItems == selectRelevantItems(allItems, item.Tags, item.ID)
    IN IF Len(allItems) <= 1 \/ Len(relevantItems) = 0 \/ found.err THEN d
       ELSE createRelationshipsFromSuggestions(d, item.ID, found.suggestions)

Suggestion(target, type, strength) ==
    [TargetID |-> target, RelationType |-> type, Strength |-> strength]

\* what FindRelationships returns: an error, no suggestion, or one
\* suggestion with a target, a type and a strength of the model's choosing
\* (hundredths: 0.5, 0.7, 0.9, 1.5)
SuggestionOutcomes ==
    {[err |-> TRUE, suggestions |-> <<>>], [err |-> FALSE, suggestions |-> <<>>]}
    \cup {[err |-> FALSE, suggestions |-> <<Suggestion(t, ty, st)>>] :
             t \in ItemIDs, ty \in {"similar_topic", "tag"}, st \in {50, 70, 90, 150}}

\* Pipeline.Process of pipeline.go, start to return, for the content types
\* whose handlers are those of Process above (link, search)
ProcessSuggesting(raw, vaultOk, extracted, found, processed, suggested) ==
    /\ open
    /\ now < MaxClock
    /\ raw.Type \notin {"note", "image"}
    /\ \E id \in ItemIDs \ ItemIdsOf(db) :
        LET out == CASE raw.Type = "link" -> processLink(raw, extracted, processed)
                     [] raw.Type = "search" -> processSearch(raw, found, processed)
                     [] OTHER -> [err |-> TRUE, item |-> NoItem]
            item == [out.item EXCEPT !.ID = id]
            saved == CreateItemTx(db, item, now + 1, 0, TRUE)
            failed(why) == /\ db' = db
                           /\ ret' = [Ret("Process", NoItem, TRUE, now + 1) EXCEPT
                                         !.why = why, !.item.Type = raw.Type]
        IN IF ~vaultOk THEN failed("vault")
           ELSE IF raw.Type \notin KnownTypes THEN failed("type")
           ELSE IF saved.err
           THEN /\ db' = saved.db
                /\ ret' = [Ret("Process", item, TRUE, now + 1) EXCEPT !.why = "save"]
           ELSE /\ db' = findAndCreateRelationshipsLLM(saved.db, item, suggested)
                /\ ret' = Ret("Process", item, FALSE, now + 1)
    /\ now' = now + 1
    /\ UNCHANGED <<open, mgrVars, auxVars, calls>>

\* ------------------------------------------------------------------------
\* Manager.GetVault  (store.go:33-55)
\* ------------------------------------------------------------------------
NoGoroutine == 0

\* a VaultStore handle: the n-th instance opened for an owner
Handle(o, n) == [owner |-> o, n |-> n]

MgrInit ==
    /\ vaults = [o \in {} |-> Handle(0, 0)]
    /\ mu = [readers |-> {}, writer |-> NoGoroutine]
    /\ pc = [g \in Goroutines |-> "idle"]
    /\ req = [g \in Goroutines |-> 0]
    /\ opening = [g \in Goroutines |-> "none"]
    /\ opened = [o \in Owners |-> 0]
    /\ returned = [o \in Owners |-> {}]

\* a goroutine enters GetVault(userID)
GetVaultCall(g, o) ==
    /\ pc[g] = "idle"
    /\ pc' = [pc EXCEPT ![g] = "rlock"]
    /\ req' = [req EXCEPT ![g] = o]
    /\ UNCHANGED <<vaults, mu, opening, opened, returned, vaultVars, auxVars>>

\* m.mu.RLock(): blocks while a writer holds the lock
RLock(g) ==
    /\ pc[g] = "rlock"
    /\ mu.writer = NoGoroutine
    /\ mu' = [mu EXCEPT !.readers = @ \cup {g}]
    /\ pc' = [pc EXCEPT ![g] = "fast"]
    /\ UNCHANGED <<vaults, req, opening, opened, returned, vaultVars, auxVars>>

\* fast path: cached handle found under the read lock, RUnlock, return it
FastPathHit(g) ==
    /\ pc[g] = "fast"
    /\ req[g] \in DOMAIN vaults
    /\ mu' = [mu EXCEPT !.readers = @ \ {g}]
    /\ returned' = [returned EXCEPT ![req[g]] = @ \cup {vaults[req[g]]}]
    /\ pc' = [pc EXCEPT ![g] = "idle"]
    /\ UNCHANGED <<vaults, req, opening, opened, vaultVars, auxVars>>

\* fast path miss: RUnlock and go for the write lock
FastPathMiss(g) ==
    /\ pc[g] = "fast"
    /\ req[g] \notin DOMAIN vaults
    /\ mu' = [mu EXCEPT !.readers = @ \ {g}]
    /\ pc' = [pc EXCEPT ![g] = "lock"]
    /\ UNCHANGED <<vaults, req, opening, opened, returned, vaultVars, auxVars>>

\* m.mu.Lock(): exclusive, waits for readers and writer to leave
Lock(g) ==
    /\ pc[g] = "lock"
    /\ mu.writer = NoGoroutine
    /\ mu.readers = {}
    /\ mu' = [mu EXCEPT !.writer = g]
    /\ pc' = [pc EXCEPT ![g] = "recheck"]
    /\ UNCHANGED <<vaults, req, opening, opened, returned, vaultVars, auxVars>>

\* a GetVault whose second lookup never finds the entry
RecheckHit_Skipped(g) == FALSE

\* the double-check `if v, ok := m.vaults[userID]; ok` under the write lock
RecheckHit(g) == req[g] \in DOMAIN vaults

\* double-check hit: return the cached handle, deferred Unlock
RecheckReturn(g) ==
    /\ pc[g] = "recheck"
    /\ RecheckHit(g)
    /\ mu' = [mu EXCEPT !.writer = NoGoroutine]
    /\ returned' = [returned EXCEPT ![req[g]] = @ \cup {vaults[req[g]]}]
    /\ pc' = [pc EXCEPT ![g] = "idle"]
    /\ UNCHANGED <<vaults, req, opening, opened, vaultVars, auxVars>>

\* double-check miss: call openVault (mkdir, sql.Open, RunMigrations); any of
\* the three can fail.  The write lock is held throughout.
openVault(g, ok) ==
    /\ pc[g] = "recheck"
    /\ ~RecheckHit(g)
    /\ ok => opened[req[g]] < MaxOpens
    /\ opening' = [opening EXCEPT ![g] = IF ok THEN "ok" ELSE "err"]
    /\ opened' = [opened EXCEPT ![req[g]] = IF ok THEN @ + 1 ELSE @]
    /\ pc' = [pc EXCEPT ![g] = "opened"]
    /\ UNCHANGED <<vaults, mu, req, returned, vaultVars, auxVars>>

\* a GetVault that caches a nil handle when openVault fails
GetVaultFail_CachesBroken(g) ==
    /\ pc[g] = "opened"
    /\ opening[g] = "err"
    /\ vaults' = [x \in DOMAIN vaults \cup {req[g]} |->
                     IF x = req[g] THEN Handle(req[g], 0) ELSE vaults[x]]
    /\ mu' = [mu EXCEPT !.writer = NoGoroutine]
    /\ opening' = [opening EXCEPT ![g] = "failed"]
    /\ pc' = [pc EXCEPT ![g] = "idle"]
    /\ UNCHANGED <<req, opened, returned, vaultVars, auxVars>>

\* openVault failed: return the error, deferred Unlock, map untouched
GetVaultFail(g) ==
    /\ pc[g] = "opened"
    /\ opening[g] = "err"
    /\ mu' = [mu EXCEPT !.writer = NoGoroutine]
    /\ opening' = [opening EXCEPT ![g] = "failed"]
    /\ pc' = [pc EXCEPT ![g] = "idle"]
    /\ UNCHANGED <<vaults, req, opened, returned, vaultVars, auxVars>>

\* openVault succeeded: m.vaults[userID] = vault, return it, deferred Unlock
GetVaultStore(g) ==
    /\ pc[g] = "opened"
    /\ opening[g] = "ok"
    /\ LET o == req[g]
           h == Handle(o, opened[o])
       IN /\ vaults' = [x \in DOMAIN vaults \cup {o} |-> IF x = o THEN h ELSE vaults[x]]
          /\ returned' = [returned EXCEPT ![o] = @ \cup {h}]
    /\ mu' = [mu EXCEPT !.writer = NoGoroutine]
    /\ opening' = [opening EXCEPT ![g] = "none"]
    /\ pc' = [pc EXCEPT ![g] = "idle"]
    /\ UNCHANGED <<req, opened, vaultVars, auxVars>>

MgrNext ==
    \/ \E g \in Goroutines, o \in Owners : GetVaultCall(g, o)
    \/ \E g \in Goroutines : RLock(g)
    \/ \E g \in Goroutines : FastPathHit(g)
    \/ \E g \in Goroutines : FastPathMiss(g)
    \/ \E g \in Goroutines : Lock(g)
    \/ \E g \in Goroutines : RecheckReturn(g)
    \/ \E g \in Goroutines, ok \in BOOLEAN : openVault(g, ok)
    \/ \E g \in Goroutines : GetVaultFail(g)
    \/ \E g \in Goroutines : GetVaultStore(g)

InitManager == MgrInit /\ VaultInit /\ AuxInit /\ db = FreshDB

SpecManager == InitManager /\ [][MgrNext]_vars

\* ------------------------------------------------------------------------
\* The vault store under its callers
\* ------------------------------------------------------------------------
Init == MgrInit /\ VaultInit /\ AuxInit

Next ==
    \/ \E x \in ItemSamples, id \in ItemIDs : LegacyCreateItem(x, id)
    \/ \E id \in ItemIDs : LegacyDeleteItem(id)
    \/ OpenVault
    \/ \E x \in ItemSamples, given \in ItemIDs \cup {NoID}, failAt \in FaultPoints :
          CreateItem(x, given, failAt)
    \/ \E id \in ItemIDs : DeleteItem(id)

Spec == Init /\ [][Next]_vars

\* ------------------------------------------------------------------------
\* Items and relationships of one open vault
\* ------------------------------------------------------------------------
\* the item the graph callers create: a note without tags
PlainNote == Item("note", <<>>, <<"A">>, <<>>, <<>>, <<>>, <<>>, <<>>)

InitGraph ==
    /\ MgrInit
    /\ AuxInit
    /\ db = RunMigrations(FreshDB)
    /\ open = TRUE
    /\ now = 0
    /\ ret = Ret("none", NoItem, FALSE, 0)
    /\ calls = [t \in Calls |-> IdleCall]

NextGraph ==
    \/ \E given \in ItemIDs \cup {NoID} : CreateItem(PlainNote, given, 0)
    \/ \E id \in ItemIDs : DeleteItem(id)
    \/ \E s \in ItemIDs, t \in ItemIDs, ty \in RelTypes : \E st \in Strengths(ty) :
          CreateRelationship([source_id |-> s, target_id |-> t,
                              relation_type |-> ty, strength |-> st])
    \/ \E s \in ItemIDs, t \in ItemIDs : DeleteRelationship(s, t)

SpecGraph == InitGraph /\ [][NextGraph]_vars

\* a vault created by the running release: no legacy file, no legacy writes
InitItems == MgrInit /\ VaultInit /\ AuxInit /\ db = FreshDB

NextItems ==
    \/ OpenVault
    \/ \E x \in ItemSamples, given \in ItemIDs \cup {NoID}, failAt \in FaultPoints :
          CreateItem(x, given, failAt)
    \/ \E id \in ItemIDs : DeleteItem(id)

SpecItems == InitItems /\ [][NextItems]_vars

\* the distinct lowercased, trimmed, non-empty forms of a tag list
StoredTagNames(tags) == {ToLower(TrimSpace(t)) : t \in Range(tags)} \ {<<>>}

\* ------------------------------------------------------------------------
\* Sequential ingestion into one migrated vault
\* ------------------------------------------------------------------------
\* a submission with the outcomes of the calls Process makes for it
Call(raw, vaultOk, extracted, found, blobOk, processed) ==
    [raw |-> raw, vaultOk |-> vaultOk, extracted |-> extracted, found |-> found,
     blobOk |-> blobOk, processed |-> processed]

\* the submissions with every outcome that makes Process take another path
\* or build another kind of item; an outcome Process does not consult for
\* the submission is held fixed
Submissions ==
    {Call(NoteA, FALSE, ExtractFailed, SearchFailed, TRUE, LLMFailed),
     Call(Video, TRUE, ExtractFailed, SearchFailed, TRUE, LLMFailed),
     Call(LinkU, TRUE, ExtractFailed, SearchFailed, TRUE, LLMFailed),
     Call(LinkU, TRUE, ExtractedUntitled, SearchFailed, TRUE, LLMFailed),
     Call(BareImage, TRUE, ExtractFailed, SearchFailed, TRUE, LLMFailed),
     Call(BareImage, TRUE, ExtractFailed, SearchFailed, FALSE, LLMFailed),
     Call(SearchQ, TRUE, ExtractFailed, SearchFailed, TRUE, LLMFailed)}
    \cup {Call(NoteA, TRUE, ExtractFailed, SearchFailed, TRUE, p) : p \in LLMOutcomes}
    \cup {Call(NoteB, TRUE, ExtractFailed, SearchFailed, TRUE, p) :
             p \in {LLMFailed, LLMTagged, LLMManyTags}}
    \cup {Call(LinkU, TRUE, ExtractedArticle, SearchFailed, TRUE, p) :
             p \in {LLMFailed, LLMTagged, LLMColliding, LLMUntitled}}
    \cup {Call(CaptionedImage, TRUE, ExtractFailed, SearchFailed, TRUE, p) :
             p \in {LLMFailed, LLMTagged, LLMUntitled}}
    \cup {Call(SearchQ, TRUE, ExtractFailed, SearchFound, TRUE, p) :
             p \in {LLMFailed, LLMTagged, LLMColliding}}

\* the submissions followed stage by stage
StagedSubmissions ==
    {Call(NoteA, FALSE, ExtractFailed, SearchFailed, TRUE, LLMFailed),
     Call(Video, TRUE, ExtractFailed, SearchFailed, TRUE, LLMFailed),
     Call(BareImage, TRUE, ExtractFailed, SearchFailed, TRUE, LLMFailed),
     Call(BareImage, TRUE, ExtractFailed, SearchFailed, FALSE, LLMFailed),
     Call(NoteA, TRUE, ExtractFailed, SearchFailed, TRUE, LLMFailed),
     Call(NoteA, TRUE, ExtractFailed, SearchFailed, TRUE, LLMTagged),
     Call(NoteB, TRUE, ExtractFailed, SearchFailed, TRUE, LLMTagged),
     Call(LinkU, TRUE, ExtractedArticle, SearchFailed, TRUE, LLMColliding)}

InitPipeline ==
    /\ MgrInit
    /\ AuxInit
    /\ db = RunMigrations(FreshDB)
    /\ open = TRUE
    /\ now = 0
    /\ ret = Ret("none", NoItem, FALSE, 0)
    /\ calls = [t \in Calls |-> IdleCall]

NextPipeline ==
    \/ \E c \in Submissions :
          Process(c.raw, c.vaultOk, c.extracted, c.found, c.blobOk, c.processed)
    \/ \E id \in ItemIDs : DeleteItem(id)

SpecPipeline == InitPipeline /\ [][NextPipeline]_vars

\* C3: every Process call whose vault opened, whose content type is known
\* and whose image file was written returns without error, and the item it
\* returns is stored
C3_ProcessPersistsItem ==
    ret.op = "Process" =>
        \/ ret.why \in {"vault", "type", "blob"}
        \/ ~ret.err /\ ret.item.ID \in ItemIdsOf(db)

\* C7: no pair of items has a 'tag' row and a 'link' row (in either
\* direction) at the same time
C7_NoTagRowOnLinkedPair ==
    \A e \in db.relationships, f \in db.relationships :
        (e.relation_type = "tag" /\ f.relation_type = "link") =>
            relationshipPairKey(e.source_id, e.target_id)
                # relationshipPairKey(f.source_id, f.target_id)

\* a 'link' row joins two stored items that share a topical tag, a pair
\* the tag loop would connect had it not been told of the link
C7_Witness ==
    \E f \in db.relationships :
        /\ f.relation_type = "link"
        /\ ret.op = "Process" /\ ~ret.err /\ ret.item.ID \in {f.source_id, f.target_id}
        /\ (getItemTags(db, f.source_id) \cap getItemTags(db, f.target_id))
               \ GraphIgnoredTags # {}

\* ------------------------------------------------------------------------
\* Text parsing on the cases of the package's tests (part_007)
\* ------------------------------------------------------------------------
ParsingExamples ==
    /\ extractWikiLinkTargets(<<"[", "[", "B", "]", "]", " ", "[", "[", "A", " ", " ", "b",
                                "|", "x", "]", "]", "[", "[", "G", "#", "x", "]", "]",
                                "[", "[", "b", "]", "]">>)
          = << <<"b">>, <<"a", " ", "b">>, <<"g">> >>
    /\ extractHashTags(<<"x", " ", "#", "G", "o", " ", "#", "g", "o", "/", "a", " ",
                         "x", "/", "#", "b">>)
          = << <<"g", "o">>, <<"g", "o", "/", "a">> >>
    /\ extractTitleFromNote(<<"#", " ", "A", " ", "b", "\n", "x">>) = <<"A", " ", "b">>
    /\ extractTitleFromNote(<<"x", "\n", "#", " ", "A">>) = <<>>
    /\ extractTitleFromNote(<<"#", "#", " ", "A", "\n", "x">>) = <<>>

\* ------------------------------------------------------------------------
\* C2: CreateItem is atomic.  A CreateItem call that returns an error (at
\* the row insert, a tag upsert, a tag association or the commit) leaves
\* the database exactly as it was; one that returns success has stored the
\* row and the association of every normalized tag of the item.
\* ------------------------------------------------------------------------
C2_CreateItemAtomic ==
    [][ (now' = now + 1 /\ ret'.op = "CreateItem") =>
          LET x == ret'.item
          IN IF ret'.err
             THEN db' = db
             ELSE /\ \E r \in db'.items :
                        /\ r.id = x.ID /\ r.type = x.Type /\ r.url = x.URL
                        /\ r.title = x.Title /\ r.content = x.Content
                        /\ r.summary = x.Summary /\ r.raw_content = x.RawContent
                        /\ r.image_path = x.ImagePath
                  /\ {a \in db'.item_tags : a[1] = x.ID}
                        = {<<x.ID, t>> : t \in StoredTagNames(x.Tags)}
                  /\ StoredTagNames(x.Tags) \subseteq db'.tags ]_vars

\* a CreateItem whose row insert and first tag went through failed at a
\* later statement: the item is not stored
C2_Witness ==
    /\ ret.op = "CreateItem"
    /\ ret.err
    /\ Len(ret.item.Tags) = 3
    /\ ret.item.ID \notin ItemIdsOf(db)

\* ------------------------------------------------------------------------
\* C4: every stored relationship's source_id and target_id are ids of items
\* that currently exist in the vault, and a CreateRelationship naming a
\* missing endpoint returns an error (and so stores nothing).
\* ------------------------------------------------------------------------
C4_RelationshipEndpointsExist ==
    /\ \A e \in db.relationships :
          e.source_id \in ItemIdsOf(db) /\ e.target_id \in ItemIdsOf(db)
    /\ (/\ ret.op = "CreateRelationship"
        /\ ~(ret.rel.source_id \in ItemIdsOf(db) /\ ret.rel.target_id \in ItemIdsOf(db)))
          => ret.err /\ ret.rel \notin db.relationships

\* a CreateRelationship naming an item that is not stored has just been
\* refused while the vault holds relationships between stored items
C4_Witness ==
    /\ ret.op = "CreateRelationship"
    /\ ret.err
    /\ ret.rel.source_id \notin ItemIdsOf(db)
    /\ db.relationships # {}

\* ------------------------------------------------------------------------
\* C5: the edge list of GetGraph has no 'tag' edge between an unordered pair
\* for which it has a 'link' edge in either direction, and it has every
\* stored 'link' edge and every stored 'tag' edge whose pair has no 'link'.
\* ------------------------------------------------------------------------
SamePair(e, f) ==
    \/ e.source_id = f.source_id /\ e.target_id = f.target_id
    \/ e.source_id = f.target_id /\ e.target_id = f.source_id

C5_GraphDedup ==
    LET edges == GetGraphRels(db)
        links == {e \in db.relationships : e.relation_type = "link"}
        tags == {e \in db.relationships : e.relation_type = "tag"}
    IN /\ \A e \in edges, f \in edges :
            ~(e.relation_type = "tag" /\ f.relation_type = "link" /\ SamePair(e, f))
       /\ links \subseteq edges
       /\ \A e \in tags : (\A f \in links : ~SamePair(e, f)) => e \in edges

\* a 'tag' row and a 'link' row of the opposite direction are stored for
\* one pair, and the edge list leaves the 'tag' row out
C5_Witness ==
    \E e \in db.relationships, f \in db.relationships :
        /\ e.relation_type = "tag" /\ f.relation_type = "link"
        /\ e.source_id = f.target_id /\ e.target_id = f.source_id
        /\ e.source_id # e.target_id
        /\ e \notin GetGraphRels(db)
        /\ f \in GetGraphRels(db)

\* ------------------------------------------------------------------------
\* C6 (as claimed): every stored relationship whose relation_type is neither
\* 'link' nor 'tag' is in the edge list of GetGraph, unchanged.
\* ------------------------------------------------------------------------
C6_OtherTypesPassThrough ==
    \A e \in db.relationships :
        e.relation_type \notin {"link", "tag"} => e \in GetGraphRels(db)

\* ------------------------------------------------------------------------
\* C8 (as claimed): once the vault is open, the full-text index holds
\* exactly one entry per stored item, equal to the item's current
\* (title, content, summary), and nothing else.
\* ------------------------------------------------------------------------
C8_FtsMirrorsItems == open => db.fts = {FtsEntry(r) : r \in db.items}

\* ------------------------------------------------------------------------
\* C9 (as claimed): after CreateItem(x) succeeds, GetItem(x.id) equals x in
\* type, url, title, content, summary, raw_content, image path and tag list.
\* ------------------------------------------------------------------------
C9_GetItemReturnsCreated ==
    (ret.op = "CreateItem" /\ ~ret.err) =>
        LET x == ret.item
            g == GetItem(db, x.ID)
        IN /\ g # Nil
           /\ g.Type = x.Type /\ g.URL = x.URL /\ g.Title = x.Title
           /\ g.Content = x.Content /\ g.Summary = x.Summary
           /\ g.ImagePath = x.ImagePath
           /\ g.RawContent = x.RawContent
           /\ g.Tags = Range(x.Tags) /\ Cardinality(g.Tags) = Len(x.Tags)

\* C9 (amended): after CreateItem(x) succeeds, GetItem(x.id) equals x in
\* type, url, title, content, summary and image path; its raw_content is
\* empty, and its tags are exactly the distinct lowercased, trimmed,
\* non-empty forms of x's tags.
C9_GetItemReturnsNormalized ==
    (ret.op = "CreateItem" /\ ~ret.err) =>
        LET x == ret.item
            g == GetItem(db, x.ID)
        IN /\ g # Nil
           /\ g.Type = x.Type /\ g.URL = x.URL /\ g.Title = x.Title
           /\ g.Content = x.Content /\ g.Summary = x.Summary
           /\ g.ImagePath = x.ImagePath
           /\ g.RawContent = <<>>
           /\ g.Tags = StoredTagNames(x.Tags)

\* a link with raw content and tags written in upper case and with blanks
\* has just been stored
C9_Witness ==
    /\ ret.op = "CreateItem"
    /\ ~ret.err
    /\ ret.item.RawContent # <<>>
    /\ \E t \in Range(ret.item.Tags) : ToLower(TrimSpace(t)) # t

\* ------------------------------------------------------------------------
\* C10 (as claimed): the names in the tags table are exactly the
\* lowercased, trimmed, non-empty tags of the items that currently exist:
\* none is malformed and none is unreferenced.
\* ------------------------------------------------------------------------
C10_TagsExactlyReferenced ==
    /\ \A name \in GetAllTags(db) : name # <<>> /\ ToLower(TrimSpace(name)) = name
    /\ GetAllTags(db) = {a[2] : a \in {b \in db.item_tags : b[1] \in ItemIdsOf(db)}}

\* ------------------------------------------------------------------------
\* C1: under any interleaving of concurrent GetVault calls, at most one
\* VaultStore instance is ever opened per owner (openVault never runs for
\* an owner that already has one, nor twice at once), and every handle a
\* caller receives for an owner is the one instance held in the map.
\* ------------------------------------------------------------------------
C1_AtMostOneOpen ==
    /\ \A o \in Owners : opened[o] <= 1
    /\ \A o \in Owners : \A h \in returned[o] : o \in DOMAIN vaults /\ vaults[o] = h
    /\ Cardinality({g \in Goroutines : pc[g] = "opened"}) <= 1

\* two callers raced past the fast path for the same owner, one opened the
\* vault and both have been handed a handle since
C1_Witness ==
    \E o \in Owners :
        /\ returned[o] # {}
        /\ \E g \in Goroutines : pc[g] = "lock" /\ req[g] = o /\ o \in DOMAIN vaults

\* ------------------------------------------------------------------------
\* C11 (as claimed): every item stored by Pipeline.Process has a non-empty
\* title, whatever the extractor, the LLM and the search returned.
\* ------------------------------------------------------------------------
C11_TitlesNonEmpty == \A r \in db.items : r.title # <<>>

\* ------------------------------------------------------------------------
\* Sequential ingestion by the pipeline that asks the LLM for relationships
\* ------------------------------------------------------------------------
NextSuggesting ==
    \/ \E c \in Submissions, suggested \in SuggestionOutcomes :
          ProcessSuggesting(c.raw, c.vaultOk, c.extracted, c.found, c.processed, suggested)
    \/ \E id \in ItemIDs : DeleteItem(id)

SpecSuggesting == InitPipeline /\ [][NextSuggesting]_vars

\* ------------------------------------------------------------------------
\* C12 (as claimed): every stored relationship has a strength in [0, 1],
\* whichever mechanism wrote it.
\* ------------------------------------------------------------------------
C12_StrengthInUnitRange ==
    \A e \in db.relationships : 0 <= e.strength /\ e.strength <= 100

\* the non-generic tags two stored items share
SharedTopicalTags(a, b) == (getItemTags(db, a) \cap getItemTags(db, b)) \ GraphIgnoredTags

\* ------------------------------------------------------------------------
\* C13: every 'tag' row joins two items that share k >= 1 non-generic tags
\* and has strength min(1.0, 0.4 + 0.15 k); so no 'tag' row joins a pair
\* with k = 0.
\* ------------------------------------------------------------------------
C13_TagStrengthFormula ==
    \A e \in db.relationships :
        e.relation_type = "tag" =>
            LET k == Cardinality(SharedTopicalTags(e.source_id, e.target_id))
            IN /\ k >= 1
               /\ e.strength = IF 40 + 15 * k < 100 THEN 40 + 15 * k ELSE 100

\* a 'tag' row of a pair that shares five tags or more, where the cap acts
C13_Witness ==
    \E e \in db.relationships :
        /\ e.relation_type = "tag"
        /\ Cardinality(SharedTopicalTags(e.source_id, e.target_id)) >= 5
        /\ e.strength = 100

UpsertStrengths(ty) == IF ty = "tag" THEN {55, 70} ELSE Strengths(ty)

NextUpsert ==
    \/ \E given \in ItemIDs \cup {NoID} : CreateItem(PlainNote, given, 0)
    \/ \E s \in ItemIDs, t \in ItemIDs, ty \in {"link", "tag"} :
          \E st \in UpsertStrengths(ty) :
              CreateRelationship([source_id |-> s, target_id |-> t,
                                  relation_type |-> ty, strength |-> st])

SpecUpsert == InitGraph /\ [][NextUpsert]_vars

\* ------------------------------------------------------------------------
\* C15: CreateRelationship is an upsert on (source_id, target_id,
\* relation_type): a successful call leaves exactly one row for its triple,
\* with the strength it was given, and every row of another triple as it
\* was; a failed call changes nothing; no triple ever has two rows.
\* ------------------------------------------------------------------------
C15_CreateRelationshipUpserts ==
    [][ret'.op = "CreateRelationship" =>
          /\ IF ret'.err THEN db' = db
             ELSE /\ db'.relationships =
                        {e \in db.relationships : ~SameTriple(e, ret'.rel)} \cup {ret'.rel}
                  /\ db'.items = db.items /\ db'.item_tags = db.item_tags
          /\ \A e \in db'.relationships, f \in db'.relationships :
                SameTriple(e, f) => e = f]_vars

\* CreateRelationship has just replaced a row by one of another strength,
\* next to a row of another triple
C15_Witness ==
    /\ ret.op = "CreateRelationship" /\ ~ret.err /\ ret.why = "replaced"
    /\ ret.rel \in db.relationships
    /\ \E f \in db.relationships : ~SameTriple(f, ret.rel)

\* ------------------------------------------------------------------------
\* C16: DeleteItem(id) returns no error; afterwards GetItem(id) is nil and no
\* tag association and no relationship refers to id; every other item, its
\* tag associations and every relationship not incident on id are as before;
\* for an id that is not stored nothing changes.
\* ------------------------------------------------------------------------
C16_DeleteItemFrame ==
    [][ret'.op = "DeleteItem" =>
          LET id == ret'.item.ID
          IN /\ ~ret'.err
             /\ GetItem(db', id) = Nil
             /\ \A a \in db'.item_tags : a[1] # id
             /\ \A e \in db'.relationships : e.source_id # id /\ e.target_id # id
             /\ db'.items = {r \in db.items : r.id # id}
             /\ db'.item_tags = {a \in db.item_tags : a[1] # id}
             /\ \A o \in ItemIdsOf(db) \ {id} : GetItem(db', o) = GetItem(db, o)
             /\ db'.relationships =
                   {e \in db.relationships : e.source_id # id /\ e.target_id # id}
             /\ id \notin ItemIdsOf(db) => db' = db]_vars

\* DeleteItem has just removed an item that had tags and relationships,
\* and another item is still stored
C16_Witness ==
    /\ ret.op = "DeleteItem" /\ ~ret.err /\ ret.why = "cascaded"
    /\ ret.item.ID \notin ItemIdsOf(db)
    /\ db.items # {}

\* ------------------------------------------------------------------------
\* Ingestion stage by stage, with cancellation
\* ------------------------------------------------------------------------
NextStaged ==
    \/ \E t \in Calls, c \in StagedSubmissions, cancelled \in BOOLEAN : StageBuild(t, c, cancelled)
    \/ \E t \in Calls : StageSave(t)
    \/ \E t \in Calls : StageInfer(t)
    \/ \E t \in Calls : Cancel(t)

SpecStaged == InitPipeline /\ [][NextStaged]_vars

\* ------------------------------------------------------------------------
\* C17: within a Process call the relationship writes come after the call's
\* CreateItem has committed: a call enters the relationship stage only by a
\* step that stores its item, relationship rows are added only by a call in
\* that stage, each with the call's item as an endpoint, and a call whose
\* CreateItem fails returns with the rows as they were.
\* ------------------------------------------------------------------------
C17_RelationshipsAfterCommit ==
    [][/\ \A t \in Calls :
            (calls'[t].stage = "saved" /\ calls[t].stage # "saved") =>
                /\ calls[t].stage = "built"
                /\ calls[t].item.ID \notin ItemIdsOf(db)
                /\ calls[t].item.ID \in ItemIdsOf(db')
                /\ db'.relationships = db.relationships
       /\ db'.relationships # db.relationships =>
            \E t \in Calls :
                /\ calls[t].stage = "saved" /\ calls'[t].stage = "idle"
                /\ \A e \in db'.relationships \ db.relationships :
                      calls[t].item.ID \in {e.source_id, e.target_id}
       /\ (ret'.op = "Process" /\ ret'.err) =>
            /\ db' = db
            /\ \A t \in Calls : calls'[t].stage # "saved" \/ calls[t].stage = "saved"]_vars

\* a call has returned after writing a relationship for its stored item
C17_Witness ==
    /\ ret.op = "Process" /\ ~ret.err
    /\ ret.item.ID \in ItemIdsOf(db)
    /\ \E e \in db.relationships : ret.item.ID \in {e.source_id, e.target_id}

\* ------------------------------------------------------------------------
\* C18 (as claimed): once the context of a Process call is cancelled, the
\* call writes nothing more to the vault.
\* ------------------------------------------------------------------------
C18_NoWriteAfterCancel ==
    [][\A t \in Calls : (calls[t].cancelled /\ calls'[t] # calls[t]) => db' = db]_vars

\* ------------------------------------------------------------------------
\* C19 (as claimed): no goroutine holds the Manager's writer lock while it
\* runs openVault (directory creation, database open, migrations).
\* ------------------------------------------------------------------------
C19_NoIOUnderWriterLock ==
    [][\A g \in Goroutines :
          (pc[g] = "recheck" /\ pc'[g] = "opened") => mu.writer # g]_vars

\* ------------------------------------------------------------------------
\* C20: when openVault fails, GetVault returns the error and no handle, the
\* map is as it was and has no entry for the owner, so the next GetVault for
\* that owner opens again; no entry of the map is a handle that was not
\* opened.
\* ------------------------------------------------------------------------
C20_OpenFailureNotCached ==
    [][/\ \A g \in Goroutines :
            (pc[g] = "opened" /\ opening[g] = "err" /\ pc'[g] = "idle") =>
                /\ vaults' = vaults
                /\ req[g] \notin DOMAIN vaults'
                /\ returned' = returned
                /\ opening'[g] = "failed"
       /\ \A o \in DOMAIN vaults' :
            \E n \in 1..opened'[o] : vaults'[o] = Handle(o, n)]_vars

\* a GetVault for an owner returned the open error, and a later GetVault for
\* that owner opened the vault and cached it
C20_Witness ==
    \E g \in Goroutines :
        /\ opening[g] = "failed"
        /\ pc[g] = "idle"
        /\ req[g] \in DOMAIN vaults
        /\ returned[req[g]] # {}

\* ------------------------------------------------------------------------
\* Readers beside writers (items.go:42-68, 195-212)
\* ------------------------------------------------------------------------
\* the columns GetItem scans from its first statement
ScanRow(r) ==
    [ID |-> r.id, Type |-> r.type, URL |-> r.url, Title |-> r.title,
     Content |-> r.content, Summary |-> r.summary, RawContent |-> <<>>,
     ImagePath |-> r.image_path, Tags |-> {}]

\* GetItem, first statement: SELECT ... FROM items WHERE id = ?; ErrNoRows
\* returns (nil, nil) at once
GetItemQueryRow(r, id) ==
    /\ open
    /\ rd[r].pc = "idle"
    /\ rd' = [rd EXCEPT ![r] =
                 IF id \notin ItemIdsOf(db)
                 THEN [IdleRead EXCEPT !.pc = "done", !.id = id]
                 ELSE [pc |-> "tags", id |-> id, row |-> ScanRow(RowOf(db, id)),
                       res |-> Nil, seen |-> {GetItem(db, id)}]]
    /\ UNCHANGED <<mgrVars, vaultVars, restVars>>

\* GetItem, second statement: getItemTags on the pool, outside any
\* transaction, so it reads the database as it is now
GetItemTags(r) ==
    /\ rd[r].pc = "tags"
    /\ rd' = [rd EXCEPT ![r].pc = "done",
                        ![r].res = [rd[r].row EXCEPT !.Tags = getItemTags(db, rd[r].id)]]
    /\ UNCHANGED <<mgrVars, vaultVars, restVars>>

\* the caller takes the result
GetItemReturn(r) ==
    /\ rd[r].pc = "done"
    /\ rd' = [rd EXCEPT ![r] = IdleRead]
    /\ UNCHANGED <<mgrVars, vaultVars, restVars>>

\* items with tags, so that an existing item never has an empty tag list
TaggedSamples == {x \in ItemSamples : x.Tags # <<>>}

NextReaders ==
    \/ \E x \in TaggedSamples, given \in ItemIDs \cup {NoID} : CreateItem(x, given, 0)
    \/ \E id \in ItemIDs : DeleteItem(id)
    \/ \E r \in Readers, id \in ItemIDs : GetItemQueryRow(r, id)
    \/ \E r \in Readers : GetItemTags(r)
    \/ \E r \in Readers : GetItemReturn(r)

SpecReaders == InitGraph /\ [][NextReaders]_vars

\* C21: an item returned by a GetItem that ran beside CreateItem and
\* DeleteItem calls is the item as an undivided read would have returned it
\* at some moment of the call: its row with the full tag set it had then.
C21_ReadBeforeOrAfter ==
    \A r \in Readers :
        (rd[r].pc = "done" /\ rd[r].res # Nil) => rd[r].res \in rd[r].seen

\* ------------------------------------------------------------------------
\* Language preference (bot.go:95-119, handleLang, i18n cache)
\* ------------------------------------------------------------------------
\* strings.Index(s, c) for a one-character c: 0-based, -1 if absent
Index(s, c) ==
    IF \E i \in 1..Len(s) : s[i] = c
    THEN (CHOOSE i \in 1..Len(s) : s[i] = c /\ \A j \in 1..(i - 1) : s[j] # c) - 1
    ELSE -1

\* code[:idx] when the separator is found after the first character
PrimaryTag(code, sep) ==
    IF Index(code, sep) > 0 THEN SubSeq(code, 1, Index(code, sep)) ELSE code

\* i18n.ParseLang: ru, uk, be -> LangRU; everything else -> LangEN
ParseLang(code) ==
    LET c == PrimaryTag(PrimaryTag(ToLower(TrimSpace(code)), "-"), "_")
    IN IF c \in {<<"r", "u">>, <<"u", "k">>, <<"b", "e">>} THEN "ru" ELSE "en"

\* i18n.IsValidLang
IsValidLang(code) == ToLower(TrimSpace(code)) \in {<<"e", "n">>, <<"r", "u">>}

\* string(lang)
LangString(lang) == IF lang = "ru" THEN <<"r", "u">> ELSE <<"e", "n">>

\* /lang arguments: Russian, English in upper case with a blank, an
\* unsupported code, none
LangArgs == {<<"r", "u">>, <<"E", "N", " ">>, <<"d", "e">>, <<>>}

\* msg.From.LanguageCode values
TelegramCodes == {<<"e", "n">>, <<"u", "k", "-", "U", "A">>}

\* GetVault as the handlers see it: openVault runs the migrations
OpenFile(f) == [f EXCEPT !.db = RunMigrations(@)]

CachePut(cache, o, lang) ==
    [x \in DOMAIN cache \cup {o} |-> IF x = o THEN lang ELSE cache[x]]

\* the language some /lang command has stored for the owner and cached too;
\* "" if there is none or if a command is between the two
StoredLang(o) ==
    LET vals == GetSetting(files[DbPath(o)], "language")
    IN IF vals = {} \/ \E h \in Handlers : hs[h].owner = o /\ hs[h].pc = "stored"
       THEN ""
       ELSE ParseLang(CHOOSE v \in vals : TRUE)

\* Bot.Run: go b.handleUpdate(ctx, update); every command handler and
\* handleMessage starts with getUserLang
HandleUpdate(h, o, cmd, arg, tg) ==
    /\ hs[h].pc = "idle"
    /\ hs' = [hs EXCEPT ![h] = [pc |-> "getlang", owner |-> o, cmd |-> cmd, arg |-> arg,
                                tg |-> tg, lang |-> "", want |-> StoredLang(o),
                                dirty |-> FALSE]]
    /\ UNCHANGED <<mgrVars, vaultVars, tn, rd, closed, files, langCache>>

\* getUserLang 1: GetCachedLang hit
GetCachedLangHit(h) ==
    /\ hs[h].pc = "getlang"
    /\ hs[h].owner \in DOMAIN langCache
    /\ hs' = [hs EXCEPT ![h].pc = "got", ![h].lang = langCache[hs[h].owner]]
    /\ UNCHANGED <<mgrVars, vaultVars, tn, rd, closed, files, langCache>>

GetCachedLangMiss(h) ==
    /\ hs[h].pc = "getlang"
    /\ hs[h].owner \notin DOMAIN langCache
    /\ hs' = [hs EXCEPT ![h].pc = "db"]
    /\ UNCHANGED <<mgrVars, vaultVars, tn, rd, closed, files, langCache>>

\* getUserLang 2 and 3: GetVault, GetSetting("language"); without vault or
\* without row, the Telegram language code
GetUserLangSetting(h, vaultOk) ==
    /\ hs[h].pc = "db"
    /\ LET p == DbPath(hs[h].owner)
           vals == GetSetting(files[p], "language")
       IN /\ files' = IF vaultOk THEN [files EXCEPT ![p] = OpenFile(@)] ELSE files
          /\ hs' = [hs EXCEPT ![h].pc = "cache",
                              ![h].lang = IF vaultOk /\ vals # {}
                                          THEN ParseLang(CHOOSE v \in vals : TRUE)
                                          ELSE ParseLang(hs[h].tg)]
    /\ UNCHANGED <<mgrVars, vaultVars, tn, rd, closed, langCache>>

\* i18n.CacheLang(userID, lang); return
GetUserLangCache(h) ==
    /\ hs[h].pc = "cache"
    /\ langCache' = CachePut(langCache, hs[h].owner, hs[h].lang)
    /\ hs' = [hs EXCEPT ![h].pc = "got"]
    /\ UNCHANGED <<mgrVars, vaultVars, tn, rd, closed, files>>

\* the update is a /lang command with a supported language
SetsLang(u) == u.cmd = "lang" /\ TrimSpace(u.arg) # <<>> /\ IsValidLang(u.arg)

\* every other handler, /lang without argument and /lang with an unknown
\* code: reply in the language found
Reply(h) ==
    /\ hs[h].pc = "got"
    /\ ~SetsLang(hs[h])
    /\ hs' = [hs EXCEPT ![h] = IdleHandler]
    /\ UNCHANGED <<mgrVars, vaultVars, tn, rd, closed, files, langCache>>

\* handleLang: GetVault and vault.SetSetting("language", string(newLang));
\* on an error of either the handler replies and returns
HandleLangSave(h, ok) ==
    /\ hs[h].pc = "got"
    /\ SetsLang(hs[h])
    /\ LET p == DbPath(hs[h].owner)
       IN IF ok
          THEN /\ files' = [files EXCEPT ![p] = SetSetting(OpenFile(@), "language",
                                                    LangString(ParseLang(hs[h].arg)))]
               /\ hs' = [g \in Handlers |->
                            IF g = h THEN [hs[h] EXCEPT !.pc = "stored"]
                            ELSE IF hs[g].owner = hs[h].owner
                                    /\ hs[g].pc \in {"getlang", "db", "cache"}
                                 THEN [hs[g] EXCEPT !.dirty = TRUE]
                                 ELSE hs[g]]
          ELSE /\ files' = files
               /\ hs' = [hs EXCEPT ![h] = IdleHandler]
    /\ UNCHANGED <<mgrVars, vaultVars, tn, rd, closed, langCache>>

\* handleLang: i18n.CacheLang(msg.From.ID, newLang), confirm
HandleLangCache(h) ==
    /\ hs[h].pc = "stored"
    /\ langCache' = CachePut(langCache, hs[h].owner, ParseLang(hs[h].arg))
    /\ hs' = [hs EXCEPT ![h] = IdleHandler]
    /\ UNCHANGED <<mgrVars, vaultVars, tn, rd, closed, files>>

NextLang ==
    \/ \E h \in Handlers, o \in Owners, tg \in TelegramCodes :
          \/ HandleUpdate(h, o, "msg", <<>>, tg)
          \/ \E arg \in LangArgs : HandleUpdate(h, o, "lang", arg, tg)
    \/ \E h \in Handlers : GetCachedLangHit(h)
    \/ \E h \in Handlers : GetCachedLangMiss(h)
    \/ \E h \in Handlers, vaultOk \in BOOLEAN : GetUserLangSetting(h, vaultOk)
    \/ \E h \in Handlers : GetUserLangCache(h)
    \/ \E h \in Handlers : Reply(h)
    \/ \E h \in Handlers, ok \in BOOLEAN : HandleLangSave(h, ok)
    \/ \E h \in Handlers : HandleLangCache(h)

SpecLang == InitManager /\ [][NextLang]_vars

\* C22: a getUserLang call entered when a /lang command had stored and
\* cached a language for the owner, and during which no /lang command
\* stored another one, returns the stored language.
C22_SettingAuthoritative ==
    \A h \in Handlers :
        (hs[h].pc = "got" /\ hs[h].want # "" /\ ~hs[h].dirty) => hs[h].lang = hs[h].want

\* ------------------------------------------------------------------------
\* RunMigrations run again (part_006:128-155)
\* ------------------------------------------------------------------------
\* tables, columns, CHECK constraint and FTS triggers of a vault
SchemaObjects(d) ==
    [schema |-> d.schema, image_path_col |-> d.image_path_col, triggers |-> d.triggers]

\* the stored item columns, without the rowid
ItemData(d) == {[r EXCEPT !.rowid = 0] : r \in d.items}

\* C23: RunMigrations keeps every item, tag association and relationship
\* and leaves no probe row; run on a vault it has just migrated, it also
\* leaves tables, constraint and FTS triggers as they were.
C23_MigrationsIdempotent ==
    [][ret'.op = "OpenVault" =>
          /\ ItemIdsOf(db') = ItemIdsOf(db)
          /\ ProbeID \notin ItemIdsOf(db')
          /\ db'.item_tags = db.item_tags
          /\ db'.relationships = db.relationships
          /\ ret.op = "OpenVault" =>
                /\ SchemaObjects(db') = SchemaObjects(db)
                /\ ItemData(db') = ItemData(db)]_vars

\* ------------------------------------------------------------------------
\* Export (ObsidianExporter, VaultStore.GetGraph)
\* ------------------------------------------------------------------------
\* the limit GetGraph passes to ListItems
GetGraphLimit == 1000

\* GetGraph: the newest items, then the deduplicated edge list
GetGraph(d) == [items |-> ListItems(d, GetGraphLimit, 0), rels |-> GetGraphRels(d)]

\* the strings.NewReplacer table of sanitizeFilename, per character
ReplaceChar(c) ==
    CASE c \in {"/", "\\", ":", "|"} -> <<"-">>
      [] c \in {"*", "?", "\"", "<", ">", "\r"} -> <<>>
      [] c = "\n" -> <<" ">>
      [] OTHER -> <<c>>

RECURSIVE Replace(_)
Replace(s) == IF s = <<>> THEN <<>> ELSE ReplaceChar(Head(s)) \o Replace(Tail(s))

\* longest file name sanitizeFilename lets through
FilenameLimit == 100

Untitled == <<"u", "n", "t", "i", "t", "l", "e", "d">>

sanitizeFilename(s) ==
    LET t == TrimSpace(Replace(s))
        u == IF Len(t) > FilenameLimit THEN SubSeq(t, 1, FilenameLimit) ELSE t
    IN IF u = <<>> THEN Untitled ELSE u

\* fmt.Sprintf("notes/%s.md", sanitizeFilename(title))
NotePath(title) == <<"n", "o", "t", "e", "s", "/">> \o sanitizeFilename(title) \o <<".", "m", "d">>

\* itemToMarkdown, as far as the archive's readers use it: the frontmatter
\* id and the [[title]] lines under "## Related", one for every related id
\* that has a title
itemToMarkdown(item, relatedIDs, titleMap) ==
    [id |-> item.ID,
     related |-> {titleMap[t] : t \in relatedIDs \cap DOMAIN titleMap}]

\* Export: one zip entry per item of GetGraph, in its order; relMap holds
\* the targets of the link rows by source
Export(d) ==
    LET g == GetGraph(d)
        relMap(id) == {r.target_id : r \in {e \in g.rels : e.relation_type = "link"
                                                          /\ e.source_id = id}}
        ids == {g.items[i].ID : i \in DOMAIN g.items}
        titleMap == [id \in ids |-> g.items[CHOOSE i \in DOMAIN g.items : g.items[i].ID = id].Title]
    IN [i \in DOMAIN g.items |->
          [name |-> NotePath(g.items[i].Title),
           doc |-> itemToMarkdown(g.items[i], relMap(g.items[i].ID), titleMap)]]

\* a vault holding as many notes as GetGraph lists, created one after the
\* other before the calls observed here
FullVaultRows ==
    {[rowid |-> i, id |-> NumItemIDs + i, type |-> "note", url |-> <<>>,
      title |-> <<"N">> \o Sprintf_d(i), content |-> <<>>, summary |-> <<>>,
      raw_content |-> <<>>, image_path |-> <<>>, created_at |-> i - GetGraphLimit] :
        i \in 1..GetGraphLimit}

FullVault ==
    [RunMigrations(FreshDB) EXCEPT !.items = FullVaultRows,
                                   !.fts = {FtsEntry(r) : r \in FullVaultRows}]

\* the oldest and the newest note of the full vault
OldestID == NumItemIDs + 1

NewestID == NumItemIDs + GetGraphLimit

InitArchive ==
    /\ MgrInit
    /\ AuxInit
    /\ db = FullVault
    /\ open = TRUE
    /\ now = 0
    /\ ret = Ret("none", NoItem, FALSE, 0)
    /\ calls = [t \in Calls |-> IdleCall]

NextArchive ==
    \/ \E given \in ItemIDs \cup {NoID} : CreateItem(PlainNote, given, 0)
    \/ \E id \in {1, OldestID} : DeleteItem(id)
    \/ \E t \in {1, OldestID}, ty \in {"link", "tag"} : \E st \in Strengths(ty) :
          CreateRelationship([source_id |-> NewestID, target_id |-> t,
                              relation_type |-> ty, strength |-> st])

SpecArchive == InitArchive /\ [][NextArchive]_vars

\* C24: every stored item has exactly one archive entry named after its
\* sanitized title whose frontmatter carries its id, and the entry lists
\* under "## Related" the titles of exactly the targets of the item's stored
\* outgoing link relationships (no target of a tag relationship).
C24_ExportComplete ==
    LET ar == Export(db)
        got == {ar[i].doc.id : i \in DOMAIN ar}
    IN /\ Len(ar) = Cardinality(got)
       /\ ItemIdsOf(db) \subseteq got
       /\ \A i \in DOMAIN ar :
             /\ ar[i].doc.id \in ItemIdsOf(db)
             /\ ar[i].name = NotePath(RowOf(db, ar[i].doc.id).title)
             /\ ar[i].doc.related =
                    {RowOf(db, e.target_id).title :
                        e \in {x \in db.relationships : /\ x.relation_type = "link"
                                                        /\ x.source_id = ar[i].doc.id}}

\* ------------------------------------------------------------------------
\* The vaults of several owners (store.go:33-75, 96-118)
\* ------------------------------------------------------------------------
\* a store call of an owner: GetVault(o), which opens the owner's vault.db
\* (openVault runs the migrations), then the call on the handle
OwnerCall(o, after(_)) ==
    /\ files' = [files EXCEPT ![DbPath(o)] = after(OpenFile(@))]
    /\ tn' = [held |-> [tn.held EXCEPT ![o] = DbPath(o)], actor |-> o]

OwnerCreateItem(o, x, id) ==
    /\ now < MaxClock
    /\ LET after(f) == [f EXCEPT !.db = CreateItemTx(@, [x EXCEPT !.ID = id], now + 1, 0, TRUE).db]
       IN OwnerCall(o, after)
    /\ now' = now + 1
    /\ UNCHANGED <<mgrVars, db, open, ret, calls, rd, closed, langCache, hs>>

OwnerDeleteItem(o, id) ==
    /\ LET after(f) == [f EXCEPT !.db = DeleteItemRows(@, id)]
       IN OwnerCall(o, after)
    /\ UNCHANGED <<mgrVars, vaultVars, rd, closed, langCache, hs>>

OwnerCreateRelationship(o, rel) ==
    /\ LET after(f) == [f EXCEPT !.db = CreateRelationshipExec(@, rel).db]
       IN /\ Cardinality(after(OpenFile(files[DbPath(o)])).db.relationships) <= MaxRels
          /\ OwnerCall(o, after)
    /\ UNCHANGED <<mgrVars, vaultVars, rd, closed, langCache, hs>>

OwnerSetSetting(o, key, value) ==
    /\ LET after(f) == SetSetting(f, key, value)
       IN OwnerCall(o, after)
    /\ UNCHANGED <<mgrVars, vaultVars, rd, closed, langCache, hs>>

\* Pipeline.Process of a note of the owner: processNote, CreateItem,
\* findAndCreateRelationships, all on the vault of raw.UserID
OwnerProcess(o, raw, processed, id) ==
    /\ now < MaxClock
    /\ LET item == [processNote(raw, processed).item EXCEPT !.ID = id]
           after(f) ==
               LET saved == CreateItemTx(f.db, item, now + 1, 0, TRUE)
               IN [f EXCEPT !.db = IF saved.err THEN saved.db
                                   ELSE findAndCreateRelationships(saved.db, item)]
       IN /\ id \notin ItemIdsOf(files[DbPath(o)].db)
          /\ OwnerCall(o, after)
    /\ now' = now + 1
    /\ UNCHANGED <<mgrVars, db, open, ret, calls, rd, closed, langCache, hs>>

NextOwners ==
    \/ \E o \in Owners : OwnerCreateItem(o, PlainNote, 1)
    \/ \E o \in Owners, id \in {1, 2} : OwnerDeleteItem(o, id)
    \/ \E o \in Owners :
          OwnerCreateRelationship(o, [source_id |-> 1, target_id |-> 2,
                                      relation_type |-> "similar_topic", strength |-> 70])
    \/ \E o \in Owners : OwnerSetSetting(o, "language", LangString("ru"))
    \/ \E o \in Owners : OwnerProcess(o, NoteA, LLMTagged, 2)

SpecOwners == InitManager /\ [][NextOwners]_vars

\* C25: the handles of two owners are never open on the same database file,
\* and a CreateItem, DeleteItem, CreateRelationship, SetSetting or Process
\* call of one owner leaves the items, tags, relationships and settings of
\* every other owner's vault as they were.
C25_VaultsIsolated ==
    [][/\ \A a \in Owners, b \in Owners :
             (a # b /\ tn'.held[a] # <<>> /\ tn'.held[b] # <<>>) => tn'.held[a] # tn'.held[b]
       /\ \A o \in Owners :
             (o # tn'.actor /\ tn.held[o] # <<>>) => files'[tn.held[o]] = files[tn.held[o]]]_vars

\* the first owner holds two items, a relationship and a setting, and the
\* second owner, whose vault is open too, has just stored a setting
C25_Witness ==
    /\ tn.actor = 2
    /\ tn.held[1] # <<>>
    /\ tn.held[2] # <<>>
    /\ Cardinality(files[tn.held[1]].db.items) = 2
    /\ files[tn.held[1]].db.relationships # {}
    /\ files[tn.held[1]].settings # {}
    /\ files[tn.held[2]].settings # {}
    /\ files[tn.held[2]].db.items = {}

\* ------------------------------------------------------------------------
\* Process calls of one owner on separate goroutines (bot.go:38-52)
\* ------------------------------------------------------------------------
Racers == 1..NumRacers

\* a note without heading that mentions [[B]]; the LLM titles it B
NoteToB == RawContent("note", <<>>, <<"[", "[", "B", "]", "]", " ", "#", "g">>, <<>>)

RacingSubmissions ==
    {Call(NoteB, TRUE, ExtractFailed, SearchFailed, TRUE, LLMTagged),
     Call(NoteToB, TRUE, ExtractFailed, SearchFailed, TRUE, LLMTagged)}

InitRacing ==
    /\ MgrInit
    /\ AuxInit
    /\ db = RunMigrations(FreshDB)
    /\ open = TRUE
    /\ now = 0
    /\ ret = Ret("none", NoItem, FALSE, 0)
    /\ calls = [t \in Racers |-> IdleCall]

NextRacing ==
    \/ \E t \in Racers, c \in RacingSubmissions : StageBuild(t, c, FALSE)
    \/ \E t \in Racers : StageSave(t)
    \/ \E t \in Racers : StageInfer(t)

SpecRacing == InitRacing /\ [][NextRacing]_vars

LinkingSubmissions ==
    {Call(raw, TRUE, ExtractFailed, SearchFailed, TRUE, p) :
        raw \in {NoteA, NoteB, NoteToB}, p \in {LLMTagged, LLMFailed}}

NextIngest ==
    \/ \E c \in LinkingSubmissions :
          Process(c.raw, c.vaultOk, c.extracted, c.found, c.blobOk, c.processed)
    \/ \E id \in ItemIDs : DeleteItem(id)

SpecIngest == InitPipeline /\ [][NextIngest]_vars

\* C27: whenever two distinct stored items X and Y are such that X's
\* content has a wiki-link whose normalized target is Y's normalized title,
\* the 'link' row X -> Y is stored, whichever of the two was ingested first.
C27_LinksWhateverTheOrder ==
    \A x \in ItemIdsOf(db), y \in ItemIdsOf(db) :
        (x # y /\ itemLinksToTitle(GetItem(db, x), normalizeTitle(RowOf(db, y).title)))
            => \E e \in db.relationships :
                  e.source_id = x /\ e.target_id = y /\ e.relation_type = "link"

\* C28: no two entries of the archive Export produces have the same name.
C28_EntryNamesDistinct ==
    LET ar == Export(db)
    IN \A i \in DOMAIN ar, j \in DOMAIN ar : i # j => ar[i].name # ar[j].name


\* ------------------------------------------------------------------------
\* Manager.Close beside GetVault
\* ------------------------------------------------------------------------
\* a goroutine enters Manager.Close()
CloseCall(g) ==
    /\ pc[g] = "idle"
    /\ pc' = [pc EXCEPT ![g] = "close"]
    /\ UNCHANGED <<vaults, mu, req, opening, opened, returned, vaultVars, auxVars>>

\* Close: m.mu.Lock(), v.db.Close() for every entry of m.vaults, deferred
\* Unlock.  The map keeps its entries.
Close(g) ==
    /\ pc[g] = "close"
    /\ mu.writer = NoGoroutine
    /\ mu.readers = {}
    /\ closed' = closed \cup {vaults[o] : o \in DOMAIN vaults}
    /\ pc' = [pc EXCEPT ![g] = "idle"]
    /\ UNCHANGED <<vaults, mu, req, opening, opened, returned, vaultVars, rd,
                   files, tn, langCache, hs>>

NextClose ==
    \/ MgrNext
    \/ \E g \in Goroutines : CloseCall(g)
    \/ \E g \in Goroutines : Close(g)

SpecClose == InitManager /\ [][NextClose]_vars

\* goroutine g's GetVault returns a handle in this step
GetVaultReturns(g) ==
    /\ pc[g] \in {"fast", "recheck", "opened"}
    /\ pc'[g] = "idle"
    /\ ~(pc[g] = "opened" /\ opening[g] = "err")

\* C29: a handle GetVault returns is never one whose database Close has
\* closed; once Close has returned, GetVault opens a fresh vault or fails.
C29_NoClosedHandleReturned ==
    [][\A g \in Goroutines :
          GetVaultReturns(g) => vaults'[req[g]] \notin closed]_vars


\* C30: both endpoints of every edge GetGraph returns are ids of items the
\* same call returns.
C30_EdgesWithinItems ==
    LET g == GetGraph(db)
        ids == {g.items[i].ID : i \in DOMAIN g.items}
    IN \A e \in g.rels : e.source_id \in ids /\ e.target_id \in ids

====
